---- MODULE Spec2Model ----
(***************************************************************************)
(* A model of the timp image engine (pkg/stdimg) and of the interactive    *)
(* session that drives it (pkg/cli).                                       *)
(*                                                                         *)
(* A pixel is <<r, g, b, a>> (8-bit, non-premultiplied).  A buffer is an   *)
(* image.NRGBA as image.NewNRGBA makes it: a rectangle and a row-major     *)
(* pixel store whose stride is the width of the rectangle.  Offsets are    *)
(* counted in pixels (the byte offset of the code is 4 times the pixel     *)
(* offset, so Pix[i+0..i+3] is in range exactly when the pixel offset is). *)
(***************************************************************************)
EXTENDS Integers, Sequences, FiniteSets, TLC

VARIABLES
    cur,        \* session: the current image (RunCLI's cur)
    ncmds,      \* session: number of commands issued so far
    panicked,   \* session: a command panicked (the process is gone)
    last,       \* session: the last ApplyCommandStdlib call, as observed
    ffin,       \* flood fill: src, colours, fuzz, clamped seed, start pixel
    mask,       \* flood fill: the set bits of the mask
    stackSeeds, \* flood fill: the stack of seeds
    ffpc,       \* flood fill: where FloodfillPaint stands
    ffout,      \* flood fill: the buffer it returns
    cin,        \* composite: dst as handed in, src, op, xoff, yoff
    cout,       \* composite: dst as Composite leaves it
    cpc,        \* composite: where the call stands
    wcfg,       \* workers: the operation, the rows and columns, the CPUs
    wpc,        \* workers: where the caller stands
    wi,         \* workers: the caller's loop index
    goroutines, \* workers: the goroutines started, each with its range
    writers,    \* workers: who wrote each row (or column) of the output
    wg,         \* workers: the wait group's counter, or the done channel
    received,   \* workers: receives from the done channel so far
    sepiaLUTOnce,  \* LUTs: the sync.Once (its done flag, who holds its mutex)
    lutWrites,     \* LUTs: how often each entry of the two tables was written
    sepiaCalls,    \* LUTs: where each concurrent SepiaTone call stands
    ebuf,       \* engine: the buffer the next engine call is given
    ecalls,     \* engine: the calls made so far, as observed
    jfile,      \* jpeg: the bytes of the file opened
    jloaded,    \* jpeg: what LoadImage returned beside the image
    jout,       \* jpeg: the bytes SaveImage wrote
    jpc,        \* jpeg: where the round trip stands
    pcfg,       \* cdfs: the number of workers, the amount
    pmain,      \* cdfs: where buildPoissonCDFs stands, its loop index
    pq,         \* cdfs: the channel jobs
    pclosed,    \* cdfs: jobs is closed
    pwk,        \* cdfs: the workers, each with the value it holds
    pwgc,       \* cdfs: the wait group's counter
    ptaken,     \* cdfs: who took each value off jobs
    pcdfs,      \* cdfs: what was written to each entry of cdfs
    vin,        \* variance: the image, the radius, the levels
    vst,        \* variance: where AdaptiveBlurPerPixel stands, what it has built
    nin,        \* normalize: the image, the command, the raw arguments
    nst         \* normalize: where the command stands, what came of it

sessionVars == <<cur, ncmds, panicked, last>>
floodVars == <<ffin, mask, stackSeeds, ffpc, ffout>>
compVars == <<cin, cout, cpc>>
workerVars == <<wcfg, wpc, wi, goroutines, writers, wg, received>>
onceVars == <<sepiaLUTOnce, lutWrites, sepiaCalls>>
engineVars == <<ebuf, ecalls>>
jpegVars == <<jfile, jloaded, jout, jpc>>
cdfsVars == <<pcfg, pmain, pq, pclosed, pwk, pwgc, ptaken, pcdfs>>
varianceVars == <<vin, vst>>
normalizeVars == <<nin, nst>>
vars == <<sessionVars, floodVars, compVars, workerVars, onceVars, engineVars, jpegVars, cdfsVars, varianceVars, normalizeVars>>
notSession == <<floodVars, compVars, workerVars, onceVars, engineVars, jpegVars, cdfsVars, varianceVars, normalizeVars>>
notFlood == <<sessionVars, compVars, workerVars, onceVars, engineVars, jpegVars, cdfsVars, varianceVars, normalizeVars>>
notComp == <<sessionVars, floodVars, workerVars, onceVars, engineVars, jpegVars, cdfsVars, varianceVars, normalizeVars>>
notWorkers == <<sessionVars, floodVars, compVars, onceVars, engineVars, jpegVars, cdfsVars, varianceVars, normalizeVars>>
notOnce == <<sessionVars, floodVars, compVars, workerVars, engineVars, jpegVars, cdfsVars, varianceVars, normalizeVars>>
notEngine == <<sessionVars, floodVars, compVars, workerVars, onceVars, jpegVars, cdfsVars, varianceVars, normalizeVars>>
notJpeg == <<sessionVars, floodVars, compVars, workerVars, onceVars, engineVars, cdfsVars, varianceVars, normalizeVars>>
notCdfs == <<sessionVars, floodVars, compVars, workerVars, onceVars, engineVars, jpegVars, varianceVars, normalizeVars>>
notVariance == <<sessionVars, floodVars, compVars, workerVars, onceVars, engineVars, jpegVars, cdfsVars, normalizeVars>>
notNormalize == <<sessionVars, floodVars, compVars, workerVars, onceVars, engineVars, jpegVars, cdfsVars, varianceVars>>

----------------------------------------------------------------------------
(* Bounds of the model *)

MaxW == 3        \* widest decoded image
MaxH == 2        \* tallest decoded image
MaxCmds == 2     \* commands per session

----------------------------------------------------------------------------
(* Small helpers *)

\* maxInt / minInt of composite.go
maxInt(a, b) == IF a > b THEN a ELSE b
minInt(a, b) == IF a < b THEN a ELSE b

\* clampInt(v, lo, hi): the order of the two tests matters when lo > hi
clampInt(v, lo, hi) == IF v < lo THEN lo ELSE IF v > hi THEN hi ELSE v

----------------------------------------------------------------------------
(* Rectangles (image.Rectangle as the engine uses it) *)

\* image.Rect: a well-formed rectangle, swapping the ends where needed
Rect(x0, y0, x1, y1) ==
    [minX |-> minInt(x0, x1), minY |-> minInt(y0, y1),
     maxX |-> maxInt(x0, x1), maxY |-> maxInt(y0, y1)]

ZR == [minX |-> 0, minY |-> 0, maxX |-> 0, maxY |-> 0]

Dx(r) == r.maxX - r.minX
Dy(r) == r.maxY - r.minY
RectEmpty(r) == r.minX >= r.maxX \/ r.minY >= r.maxY

\* Rectangle.Intersect: the zero rectangle when the intersection is empty
Intersect(r, s) ==
    LET t == [minX |-> maxInt(r.minX, s.minX), minY |-> maxInt(r.minY, s.minY),
              maxX |-> minInt(r.maxX, s.maxX), maxY |-> minInt(r.maxY, s.maxY)]
    IN IF RectEmpty(t) THEN ZR ELSE t

\* Rectangle.Add / Rectangle.Sub by the point (dx, dy)
RectAdd(r, dx, dy) ==
    [minX |-> r.minX + dx, minY |-> r.minY + dy,
     maxX |-> r.maxX + dx, maxY |-> r.maxY + dy]

RectPoints(r) ==
    IF RectEmpty(r) THEN {}
    ELSE {<<x, y>> : x \in r.minX..(r.maxX - 1), y \in r.minY..(r.maxY - 1)}

----------------------------------------------------------------------------
(* Buffers *)

Transparent == <<0, 0, 0, 0>>

\* image.NewNRGBA(r): a zeroed store of Dx*Dy pixels
NewNRGBA(r) ==
    [rect |-> r, pix |-> [k \in 1..(Dx(r) * Dy(r)) |-> Transparent]]

\* (*NRGBA).PixOffset, in pixels
PixOffset(img, x, y) ==
    (y - img.rect.minY) * Dx(img.rect) + (x - img.rect.minX)

\* an index expression Pix[i+0..i+3] does not panic
InPix(img, off) == off >= 0 /\ off < Len(img.pix)

PixAt(img, off) == img.pix[off + 1]

\* CloneNRGBA
CloneNRGBA(src) == [rect |-> src.rect, pix |-> src.pix]

\* samplePixelClamped: clamps, then indexes; it panics on an empty store
SampleOff(img, x, y) ==
    PixOffset(img,
              clampInt(x, img.rect.minX, img.rect.maxX - 1),
              clampInt(y, img.rect.minY, img.rect.maxY - 1))

samplePixelClampedPanics(img, x, y) == ~InPix(img, SampleOff(img, x, y))

samplePixelClamped(img, x, y) == PixAt(img, SampleOff(img, x, y))

----------------------------------------------------------------------------
(* Argument parsing.  Arguments are strings; the parsers are tables over   *)
(* the tokens the model feeds to the dispatcher.                           *)

\* strconv.Atoi on the tokens of the model: defined exactly on the decimals
IntVal == ("-1" :> -1) @@ ("0" :> 0) @@ ("1" :> 1) @@ ("2" :> 2) @@ ("3" :> 3)
          @@ ("5" :> 5) @@ ("50" :> 50)
AtoiOK(s) == s \in DOMAIN IntVal
Atoi(s) == IntVal[s]

\* strconv.ParseFloat on the tokens of the model (the decimals are floats too)
ParseFloatOK(s) == s \in DOMAIN IntVal
ParseFloat(s) == IntVal[s]

\* s[len(s)-1] == '%' and s[:len(s)-1], on the tokens of the model
PercentBody == ("0%" :> "0") @@ ("5%" :> "5") @@ ("50%" :> "50") @@ ("x%" :> "x")
HasPercentSuffix(s) == s \in DOMAIN PercentBody

\* strconv.ParseBool
BoolVal == ("true" :> TRUE) @@ ("false" :> FALSE) @@ ("1" :> TRUE) @@ ("0" :> FALSE)
ParseBoolOK(s) == s \in DOMAIN BoolVal
ParseBool(s) == BoolVal[s]

----------------------------------------------------------------------------
(* image/draw.Draw(dst, r, src, sp, draw.Src) between two NRGBA buffers:   *)
(* r is clipped to dst's bounds and to src's bounds moved by r.Min - sp,   *)
(* sp moves with r.Min, and the clipped rectangle is copied.               *)

DrawSrc(dst, r, src, spx, spy) ==
    LET r1 == Intersect(r, dst.rect)
        r2 == Intersect(r1, RectAdd(src.rect, r.minX - spx, r.minY - spy))
        sx0 == spx + (r2.minX - r.minX)
        sy0 == spy + (r2.minY - r.minY)
        w == Dx(dst.rect)
    IN [rect |-> dst.rect,
        pix |-> [k \in 1..Len(dst.pix) |->
                   LET x == dst.rect.minX + ((k - 1) % w)
                       y == dst.rect.minY + ((k - 1) \div w)
                   IN IF <<x, y>> \in RectPoints(r2)
                      THEN PixAt(src, PixOffset(src, sx0 + (x - r2.minX),
                                                     sy0 + (y - r2.minY)))
                      ELSE dst.pix[k]]]

----------------------------------------------------------------------------
(* The operations.  Each returns [img, panic]: the buffer it returns, and  *)
(* whether an index expression on its way was out of range.                *)

NilImage == [rect |-> ZR, pix |-> <<>>, nil |-> TRUE]
Ok(img) == [img |-> [rect |-> img.rect, pix |-> img.pix, nil |-> FALSE], panic |-> FALSE]
Panic == [img |-> NilImage, panic |-> TRUE]

\* case "crop": the rectangle, the allocation and the draw
CropImage(src, w, h, x0, y0) ==
    LET rect == Intersect(Rect(x0, y0, x0 + w, y0 + h), src.rect)
        out == NewNRGBA(rect)
    IN Ok(DrawSrc(out, RectAdd(rect, -rect.minX, -rect.minY), src,
                  rect.minX, rect.minY))

\* case "flip" (vertical=TRUE) and case "flop" (vertical=FALSE): loops over
\* x in 0..w-1, y in 0..h-1 and indexes both buffers through PixOffset
FlipDst(out, vertical, x, y) ==
    IF vertical THEN PixOffset(out, x, Dy(out.rect) - 1 - y)
    ELSE PixOffset(out, Dx(out.rect) - 1 - x, y)

FlipImage(src, vertical) ==
    LET out == NewNRGBA(src.rect)
        iter == {<<x, y>> : x \in 0..(Dx(src.rect) - 1), y \in 0..(Dy(src.rect) - 1)}
        bad == \E p \in iter :
                  \/ ~InPix(src, PixOffset(src, p[1], p[2]))
                  \/ ~InPix(out, FlipDst(out, vertical, p[1], p[2]))
    IN IF bad THEN Panic
       ELSE Ok([rect |-> out.rect,
                pix |-> [k \in 1..Len(out.pix) |->
                    IF \E p \in iter : FlipDst(out, vertical, p[1], p[2]) = k - 1
                    THEN LET p == CHOOSE q \in iter :
                                    FlipDst(out, vertical, q[1], q[2]) = k - 1
                         IN PixAt(src, PixOffset(src, p[1], p[2]))
                    ELSE Transparent]])

\* Trim: fuzz is given in hundredths (fuzz100 = 100 * fuzz), so that
\* dsq > fuzz*fuzz is the integer test 10000*dsq > fuzz100*fuzz100
TrimDiffers(src, x, y, fuzz100) ==
    LET ref == PixAt(src, PixOffset(src, src.rect.minX, src.rect.minY))
        p == PixAt(src, PixOffset(src, x, y))
        dsq == (p[1] - ref[1]) * (p[1] - ref[1]) + (p[2] - ref[2]) * (p[2] - ref[2])
               + (p[3] - ref[3]) * (p[3] - ref[3])
    IN 10000 * dsq > fuzz100 * fuzz100

SetMin(S) == CHOOSE m \in S : \A n \in S : m <= n
\* the greatest element: the least of the negated ones, negated
SetMax(S) == 0 - SetMin({0 - m : m \in S})

Trim(src, fuzz100) ==
    IF Dx(src.rect) = 0 \/ Dy(src.rect) = 0 THEN Ok(CloneNRGBA(src))
    ELSE LET diff == {p \in RectPoints(src.rect) : TrimDiffers(src, p[1], p[2], fuzz100)}
         IN IF diff = {} THEN Ok(CloneNRGBA(src))
            ELSE LET rect == Rect(SetMin({p[1] : p \in diff}), SetMin({p[2] : p \in diff}),
                                  SetMax({p[1] : p \in diff}) + 1,
                                  SetMax({p[2] : p \in diff}) + 1)
                     out == NewNRGBA(rect)
                 IN Ok(DrawSrc(out, RectAdd(rect, -rect.minX, -rect.minY), src,
                               rect.minX, rect.minY))

\* ResampleLanczos(src, dstW, dstH, 3): every destination pixel samples the
\* source through samplePixelClamped over a kernel window that is never
\* empty.  The weights are floating point and are not modelled: the value
\* written is the tap nearest to the mapped centre (x+0.5)*srcW/dstW - 0.5.
ResampleLanczos(src, dstW, dstH) ==
    LET dst == NewNRGBA(Rect(0, 0, dstW, dstH))
        srcW == Dx(src.rect)
        srcH == Dy(src.rect)
        iter == {<<x, y>> : x \in 0..(dstW - 1), y \in 0..(dstH - 1)}
        cx(x) == ((2 * x + 1) * srcW) \div (2 * dstW)
        cy(y) == ((2 * y + 1) * srcH) \div (2 * dstH)
    IN IF dstW = 0 \/ dstH = 0 THEN Ok(dst)
       ELSE IF \E p \in iter : samplePixelClampedPanics(src, cx(p[1]), cy(p[2]))
       THEN Panic
       ELSE Ok([rect |-> dst.rect,
                pix |-> [k \in 1..Len(dst.pix) |->
                    IF \E p \in iter : PixOffset(dst, p[1], p[2]) = k - 1
                    THEN LET p == CHOOSE q \in iter : PixOffset(dst, q[1], q[2]) = k - 1
                         IN samplePixelClamped(src, cx(p[1]), cy(p[2]))
                    ELSE Transparent]])

----------------------------------------------------------------------------
(* Perceptual flood fill *)

Red    == <<255, 0, 0, 255>>
Red2   == <<250, 0, 0, 255>>
Blue   == <<0, 0, 255, 255>>
Black  == <<0, 0, 0, 255>>
White  == <<255, 255, 255, 255>>

RGB(c) == <<c[1], c[2], c[3]>>

\* labDistanceSq over the colours of the model: rgbToLab is floating point
\* (pow 2.4, cube root), so the squared distances are tabulated, computed
\* as the code computes them and rounded up to an integer; d <= f*f for an
\* integer f is then the same test on the tabulated value.  Alpha plays no
\* part in rgbToLab.
LabDistSqCeil ==
    (<<<<255, 0, 0>>, <<255, 0, 0>>>> :> 0) @@ (<<<<255, 0, 0>>, <<250, 0, 0>>>> :> 4) @@
    (<<<<255, 0, 0>>, <<0, 0, 255>>>> :> 31087) @@ (<<<<255, 0, 0>>, <<0, 0, 0>>>> :> 13766) @@
    (<<<<255, 0, 0>>, <<255, 255, 255>>>> :> 13118) @@ (<<<<250, 0, 0>>, <<255, 0, 0>>>> :> 4) @@
    (<<<<250, 0, 0>>, <<250, 0, 0>>>> :> 0) @@ (<<<<250, 0, 0>>, <<0, 0, 255>>>> :> 30695) @@
    (<<<<250, 0, 0>>, <<0, 0, 0>>>> :> 13334) @@ (<<<<250, 0, 0>>, <<255, 255, 255>>>> :> 12892) @@
    (<<<<0, 0, 255>>, <<255, 0, 0>>>> :> 31087) @@ (<<<<0, 0, 255>>, <<250, 0, 0>>>> :> 30695) @@
    (<<<<0, 0, 255>>, <<0, 0, 255>>>> :> 0) @@ (<<<<0, 0, 255>>, <<0, 0, 0>>>> :> 18948) @@
    (<<<<0, 0, 255>>, <<255, 255, 255>>>> :> 22489) @@ (<<<<0, 0, 0>>, <<255, 0, 0>>>> :> 13766) @@
    (<<<<0, 0, 0>>, <<250, 0, 0>>>> :> 13334) @@ (<<<<0, 0, 0>>, <<0, 0, 255>>>> :> 18948) @@
    (<<<<0, 0, 0>>, <<0, 0, 0>>>> :> 0) @@ (<<<<0, 0, 0>>, <<255, 255, 255>>>> :> 10001) @@
    (<<<<255, 255, 255>>, <<255, 0, 0>>>> :> 13118) @@ (<<<<255, 255, 255>>, <<250, 0, 0>>>> :> 12892) @@
    (<<<<255, 255, 255>>, <<0, 0, 255>>>> :> 22489) @@ (<<<<255, 255, 255>>, <<0, 0, 0>>>> :> 10001) @@
    (<<<<255, 255, 255>>, <<255, 255, 255>>>> :> 0) @@
    (<<<<0, 0, 0>>, <<112, 66, 20>>>> :> 2526) @@ (<<<<0, 0, 231>>, <<112, 66, 20>>>> :> 21483) @@
    (<<<<0, 0, 252>>, <<112, 66, 20>>>> :> 23949) @@ (<<<<0, 0, 255>>, <<112, 66, 20>>>> :> 24311) @@
    (<<<<0, 105, 251>>, <<112, 66, 20>>>> :> 13432) @@ (<<<<0, 106, 252>>, <<112, 66, 20>>>> :> 13437) @@
    (<<<<0, 107, 253>>, <<112, 66, 20>>>> :> 13442) @@ (<<<<1, 0, 0>>, <<112, 66, 20>>>> :> 2508) @@
    (<<<<3, 0, 0>>, <<112, 66, 20>>>> :> 2472) @@ (<<<<4, 1, 0>>, <<112, 66, 20>>>> :> 2433) @@
    (<<<<4, 2, 0>>, <<112, 66, 20>>>> :> 2414) @@ (<<<<8, 3, 0>>, <<112, 66, 20>>>> :> 2323) @@
    (<<<<8, 4, 1>>, <<112, 66, 20>>>> :> 2323) @@ (<<<<88, 0, 151>>, <<112, 66, 20>>>> :> 10657) @@
    (<<<<91, 48, 0>>, <<112, 66, 20>>>> :> 63) @@ (<<<<91, 48, 1>>, <<112, 66, 20>>>> :> 63) @@
    (<<<<92, 49, 3>>, <<112, 66, 20>>>> :> 57) @@ (<<<<93, 48, 1>>, <<112, 66, 20>>>> :> 60) @@
    (<<<<101, 31, 77>>, <<112, 66, 20>>>> :> 2659) @@ (<<<<106, 73, 121>>, <<112, 66, 20>>>> :> 3273) @@
    (<<<<107, 27, 170>>, <<112, 66, 20>>>> :> 10710) @@ (<<<<108, 82, 59>>, <<112, 66, 20>>>> :> 380) @@
    (<<<<109, 30, 172>>, <<112, 66, 20>>>> :> 10672) @@ (<<<<109, 63, 17>>, <<112, 66, 20>>>> :> 2) @@
    (<<<<110, 64, 19>>, <<112, 66, 20>>>> :> 1) @@ (<<<<111, 63, 17>>, <<112, 66, 20>>>> :> 3) @@
    (<<<<111, 65, 19>>, <<112, 66, 20>>>> :> 1) @@ (<<<<112, 66, 20>>, <<112, 66, 20>>>> :> 0) @@
    (<<<<112, 66, 21>>, <<112, 66, 20>>>> :> 1) @@ (<<<<113, 66, 19>>, <<112, 66, 20>>>> :> 1) @@
    (<<<<115, 82, 131>>, <<112, 66, 20>>>> :> 3345) @@ (<<<<115, 88, 66>>, <<112, 66, 20>>>> :> 425) @@
    (<<<<117, 83, 133>>, <<112, 66, 20>>>> :> 3399) @@ (<<<<118, 90, 68>>, <<112, 66, 20>>>> :> 429) @@
    (<<<<118, 118, 118>>, <<112, 66, 20>>>> :> 1746) @@ (<<<<119, 48, 93>>, <<112, 66, 20>>>> :> 2581) @@
    (<<<<119, 92, 69>>, <<112, 66, 20>>>> :> 439) @@ (<<<<119, 119, 119>>, <<112, 66, 20>>>> :> 1759) @@
    (<<<<119, 199, 79>>, <<112, 66, 20>>>> :> 5726) @@ (<<<<120, 200, 80>>, <<112, 66, 20>>>> :> 5754) @@
    (<<<<121, 50, 95>>, <<112, 66, 20>>>> :> 2583) @@ (<<<<123, 95, 73>>, <<112, 66, 20>>>> :> 474) @@
    (<<<<123, 203, 82>>, <<112, 66, 20>>>> :> 5863) @@ (<<<<124, 96, 74>>, <<112, 66, 20>>>> :> 483) @@
    (<<<<124, 131, 48>>, <<112, 66, 20>>>> :> 1388) @@ (<<<<124, 132, 48>>, <<112, 66, 20>>>> :> 1437) @@
    (<<<<124, 165, 63>>, <<112, 66, 20>>>> :> 3220) @@ (<<<<126, 167, 65>>, <<112, 66, 20>>>> :> 3263) @@
    (<<<<127, 127, 127>>, <<112, 66, 20>>>> :> 1879) @@ (<<<<128, 128, 128>>, <<112, 66, 20>>>> :> 1895) @@
    (<<<<128, 135, 51>>, <<112, 66, 20>>>> :> 1466) @@ (<<<<132, 132, 132>>, <<112, 66, 20>>>> :> 1963) @@
    (<<<<141, 182, 79>>, <<112, 66, 20>>>> :> 3640) @@ (<<<<145, 225, 104>>, <<112, 66, 20>>>> :> 6525) @@
    (<<<<172, 49, 1>>, <<112, 66, 20>>>> :> 1375) @@ (<<<<181, 57, 10>>, <<112, 66, 20>>>> :> 1414) @@
    (<<<<183, 58, 11>>, <<112, 66, 20>>>> :> 1452) @@ (<<<<254, 0, 0>>, <<112, 66, 20>>>> :> 5539) @@
    (<<<<254, 255, 254>>, <<112, 66, 20>>>> :> 5968) @@ (<<<<255, 0, 0>>, <<112, 66, 20>>>> :> 5591) @@
    (<<<<255, 2, 0>>, <<112, 66, 20>>>> :> 5577) @@ (<<<<255, 18, 5>>, <<112, 66, 20>>>> :> 5377) @@
    (<<<<255, 255, 255>>, <<112, 66, 20>>>> :> 5990)

labDistanceSq(c1, c2) == LabDistSqCeil[<<RGB(c1), RGB(c2)>>]

\* the seed is clamped by two successive tests
FFClampStart(v, lo, hi) ==
    LET a == IF v < lo THEN lo ELSE v
    IN IF a >= hi THEN hi - 1 ELSE a

\* fuzz clamped to [0, 200], squared
FFFuzzSq(fuzz) == LET f == IF fuzz < 0 THEN 0 ELSE IF fuzz > 200 THEN 200 ELSE fuzz
                  IN f * f

idxOf(src, px, py) == (py - src.rect.minY) * Dx(src.rect) + (px - src.rect.minX)

\* everything FloodfillPaint fixes before it looks for the region
FFContext(src, fillColor, fuzz, borderColor, x, y, invert) ==
    LET sx == FFClampStart(x, src.rect.minX, src.rect.maxX)
        sy == FFClampStart(y, src.rect.minY, src.rect.maxY)
    IN [src |-> src, fill |-> fillColor, fuzzSq |-> FFFuzzSq(fuzz),
        border |-> borderColor, useBorder |-> borderColor # Transparent,
        x |-> sx, y |-> sy, invert |-> invert,
        start |-> IF samplePixelClampedPanics(src, sx, sy) THEN Transparent
                  ELSE samplePixelClamped(src, sx, sy)]

\* a slip: only the border colour itself is a wall
isBoundary_Exact(ctx, c) ==
    ctx.useBorder /\ labDistanceSq(c, ctx.border) = 0

isBoundary(ctx, c) ==
    ctx.useBorder /\ labDistanceSq(c, ctx.border) <= ctx.fuzzSq

matchesTarget(ctx, c) ==
    IF ctx.useBorder THEN ~isBoundary(ctx, c)
    ELSE labDistanceSq(c, ctx.start) <= ctx.fuzzSq

\* the test every scan of the span fill makes on a pixel
FFFillable(ctx, mk, px, py) ==
    /\ idxOf(ctx.src, px, py) \notin mk
    /\ LET c == samplePixelClamped(ctx.src, px, py)
       IN ~(isBoundary(ctx, c) \/ ~matchesTarget(ctx, c))

RECURSIVE SeqOfSet(_)
SeqOfSet(S) == IF S = {} THEN <<>>
               ELSE LET m == SetMin(S) IN <<m>> \o SeqOfSet(S \ {m})

\* a slip: the adjacent rows are scanned within xl..xr only (4-way fill)
FFRowSeeds_FourWay(ctx, mk, xl, xr, adjY) ==
    LET r == ctx.src.rect
        heads == {x \in xl..xr :
                    /\ FFFillable(ctx, mk, x, adjY)
                    /\ (x = xl \/ ~FFFillable(ctx, mk, x - 1, adjY))}
        xs == SeqOfSet(heads)
    IN IF adjY < r.minY \/ adjY >= r.maxY THEN <<>>
       ELSE [i \in 1..Len(xs) |-> <<xs[i], adjY>>]

\* the seeds one adjacent row contributes: the first pixel of every run of
\* fillable pixels within xl-1..xr+1, left to right
FFRowSeeds(ctx, mk, xl, xr, adjY) ==
    LET r == ctx.src.rect
        startX == IF xl - 1 < r.minX THEN r.minX ELSE xl - 1
        endX == IF xr + 1 >= r.maxX THEN r.maxX - 1 ELSE xr + 1
        heads == {x \in startX..endX :
                    /\ FFFillable(ctx, mk, x, adjY)
                    /\ (x = startX \/ ~FFFillable(ctx, mk, x - 1, adjY))}
        xs == SeqOfSet(heads)
    IN IF adjY < r.minY \/ adjY >= r.maxY THEN <<>>
       ELSE [i \in 1..Len(xs) |-> <<xs[i], adjY>>]

\* a seed that is popped and dropped: outside, already marked, or no match
FFDiscarded(ctx, mk, s) ==
    LET r == ctx.src.rect
    IN \/ s[1] < r.minX \/ s[1] >= r.maxX \/ s[2] < r.minY \/ s[2] >= r.maxY
       \/ idxOf(ctx.src, s[1], s[2]) \in mk
       \/ LET c0 == samplePixelClamped(ctx.src, s[1], s[2])
          IN isBoundary(ctx, c0) \/ ~matchesTarget(ctx, c0)

\* a slip: the span is found but its bits are not set
FFStep_NoMark(ctx, st) ==
    LET n == Len(st.stack)
        s == st.stack[n]
        rest == SubSeq(st.stack, 1, n - 1)
        r == ctx.src.rect
        xl == SetMin({a \in r.minX..s[1] :
                        \A b \in a..(s[1] - 1) : FFFillable(ctx, st.mask, b, s[2])})
        xr == SetMax({a \in s[1]..(r.maxX - 1) :
                        \A b \in (s[1] + 1)..a : FFFillable(ctx, st.mask, b, s[2])})
    IN IF FFDiscarded(ctx, st.mask, s) THEN [mask |-> st.mask, stack |-> rest]
       ELSE [mask |-> st.mask,
             stack |-> rest \o FFRowSeeds(ctx, st.mask, xl, xr, s[2] - 1)
                            \o FFRowSeeds(ctx, st.mask, xl, xr, s[2] + 1)]

\* one turn of the loop "for len(stackSeeds) > 0": st = [mk, stack]
FFStep(ctx, st) ==
    LET n == Len(st.stack)
        s == st.stack[n]
        rest == SubSeq(st.stack, 1, n - 1)
        r == ctx.src.rect
        sx == s[1]
        sy == s[2]
        xl == SetMin({a \in r.minX..sx :
                        \A b \in a..(sx - 1) : FFFillable(ctx, st.mask, b, sy)})
        xr == SetMax({a \in sx..(r.maxX - 1) :
                        \A b \in (sx + 1)..a : FFFillable(ctx, st.mask, b, sy)})
        \* the span a..b is marked, then the adjacent rows are scanned
        Push(a, b, mask2) ==
            [mask |-> mask2,
             stack |-> rest \o FFRowSeeds(ctx, mask2, a, b, sy - 1)
                            \o FFRowSeeds(ctx, mask2, a, b, sy + 1)]
        Mark(a, b) ==
            CHOOSE res \in {Push(a, b, mask2) :
                            mask2 \in {st.mask \cup {idxOf(ctx.src, xi, sy) : xi \in a..b}}} : TRUE
    IN IF FFDiscarded(ctx, st.mask, s) THEN [mask |-> st.mask, stack |-> rest]
       ELSE CHOOSE res \in {Mark(a, b) : a \in {xl}, b \in {xr}} : TRUE

RECURSIVE FFDiscover(_, _)
FFDiscover(ctx, st) ==
    IF st.stack = <<>> THEN st.mask ELSE FFDiscover(ctx, FFStep(ctx, st))

\* "if !useBorder && invert": every matching pixel of the image is marked
FFGlobalMask(ctx) ==
    {idxOf(ctx.src, p[1], p[2]) : p \in
        {q \in RectPoints(ctx.src.rect) :
            matchesTarget(ctx, samplePixelClamped(ctx.src, q[1], q[2]))}}

\* a slip: the flip is left out
FFInvertMask_Skip(ctx, mk) == mk

\* "if invert": every bit below size is flipped
FFInvertMask(ctx, mk) ==
    IF ctx.invert THEN (0..(Dx(ctx.src.rect) * Dy(ctx.src.rect) - 1)) \ mk
    ELSE mk

\* the fill colour over one source pixel, un-premultiplied; uint8() cuts the
\* fraction off.  Exact arithmetic: it agrees with the float64 arithmetic of
\* the code on the colours of the model (opaque pixels, or an opaque or
\* fully transparent fill)
FFBlend(fill, s) ==
    LET den == 255 * fill[4] + s[4] * (255 - fill[4])
        ch(f, c) == IF den > 0
                    THEN (f * fill[4] * 255 + c * s[4] * (255 - fill[4])) \div den
                    ELSE 0
    IN <<ch(fill[1], s[1]), ch(fill[2], s[2]), ch(fill[3], s[3]), den \div 255>>

\* the clone with the fill colour composited where the mk is set
FFComposite(ctx, mk) ==
    [rect |-> ctx.src.rect,
     pix |-> [k \in 1..Len(ctx.src.pix) |->
                IF (k - 1) \in mk THEN FFBlend(ctx.fill, ctx.src.pix[k])
                ELSE ctx.src.pix[k]]]

FFRegion(ctx) ==
    FFInvertMask(ctx,
        IF ~ctx.useBorder /\ ctx.invert THEN FFGlobalMask(ctx)
        ELSE FFDiscover(ctx, [mask |-> {}, stack |-> <<<<ctx.x, ctx.y>>>>]))

FloodfillPaint(src, fillColor, fuzz, borderColor, x, y, invert) ==
    LET ctx == FFContext(src, fillColor, fuzz, borderColor, x, y, invert)
    IN IF samplePixelClampedPanics(src, ctx.x, ctx.y) THEN Panic
       ELSE Ok(FFComposite(ctx, FFRegion(ctx)))

----------------------------------------------------------------------------
(* Compositor *)

\* stringUpper on the operator names the model uses
UpperOf == ("over" :> "OVER") @@ ("OVER" :> "OVER") @@ ("multiply" :> "MULTIPLY")
           @@ ("Screen" :> "SCREEN") @@ ("overlay" :> "OVERLAY") @@ ("add" :> "ADD")
           @@ ("plus" :> "PLUS") @@ ("difference" :> "DIFFERENCE")
           @@ ("dissolve" :> "DISSOLVE") @@ ("nosuchop" :> "NOSUCHOP")
stringUpper(op) == UpperOf[op]

\* the blend functions on channel values S, D in 0..255 (sr = S/255,
\* dr = D/255); the result is in units of 1/65025
\* a slip: the default returns dr, not sr
blendFunc_ReturnsDst(op, S, D) ==
    LET u == stringUpper(op)
    IN CASE u = "MULTIPLY" -> S * D
         [] u = "SCREEN" -> 65025 - (255 - S) * (255 - D)
         [] u = "OVERLAY" -> IF 2 * D < 255 THEN 2 * S * D
                             ELSE 65025 - 2 * (255 - S) * (255 - D)
         [] u \in {"ADD", "PLUS", "SUM"} -> IF S + D > 255 THEN 65025 ELSE (S + D) * 255
         [] u = "DIFFERENCE" -> (IF D >= S THEN D - S ELSE S - D) * 255
         [] OTHER -> D * 255

blendFunc(op, S, D) ==
    LET u == stringUpper(op)
    IN CASE u = "MULTIPLY" -> S * D
         [] u = "SCREEN" -> 65025 - (255 - S) * (255 - D)
         [] u = "OVERLAY" -> IF 2 * D < 255 THEN 2 * S * D
                             ELSE 65025 - 2 * (255 - S) * (255 - D)
         [] u \in {"ADD", "PLUS", "SUM"} -> IF S + D > 255 THEN 65025 ELSE (S + D) * 255
         [] u = "DIFFERENCE" -> (IF D >= S THEN D - S ELSE S - D) * 255
         [] OTHER -> S * 255

\* one pixel of the overlap: blend, then straight-alpha composite; uint8()
\* cuts the fraction off (exact arithmetic stands for the float64 of the
\* code: the two agree on the colours of the model)
CompositePixel(op, s, d) ==
    LET ch(S, D) == ((255 - s[4]) * D * 255 + s[4] * blendFunc(op, S, D)) \div 65025
    IN <<ch(s[1], d[1]), ch(s[2], d[2]), ch(s[3], d[3]),
         (s[4] * 255 + d[4] * (255 - s[4])) \div 255>>

\* a slip: the overlap runs to dst's right edge, whatever the source's width
CompositeOverlap_ToRightEdge(dst, src, xoff, yoff) ==
    [minX |-> maxInt(dst.rect.minX, xoff), minY |-> maxInt(dst.rect.minY, yoff),
     maxX |-> dst.rect.maxX,
     maxY |-> minInt(dst.rect.maxY, yoff + Dy(src.rect))]

\* the overlap rectangle of Composite
CompositeOverlap(dst, src, xoff, yoff) ==
    [minX |-> maxInt(dst.rect.minX, xoff), minY |-> maxInt(dst.rect.minY, yoff),
     maxX |-> minInt(dst.rect.maxX, xoff + Dx(src.rect)),
     maxY |-> minInt(dst.rect.maxY, yoff + Dy(src.rect))]

\* Composite writes dst in place and returns it: [img, panic], img being
\* dst's rectangle with the store as Composite leaves it
Composite(dst, src, op, xoff, yoff) ==
    LET srcNR == CloneNRGBA(src)     \* ToNRGBA(src): a copy, same rectangle
        o == CompositeOverlap(dst, srcNR, xoff, yoff)
        pts == RectPoints(o)
    IN IF o.minX >= o.maxX \/ o.minY >= o.maxY THEN Ok(dst)
       ELSE IF \E p \in pts : \/ ~InPix(srcNR, PixOffset(srcNR, p[1] - xoff, p[2] - yoff))
                              \/ ~InPix(dst, PixOffset(dst, p[1], p[2]))
       THEN Panic
       ELSE Ok([rect |-> dst.rect,
                pix |-> [k \in 1..Len(dst.pix) |->
                    IF \E p \in pts : PixOffset(dst, p[1], p[2]) = k - 1
                    THEN LET p == CHOOSE q \in pts : PixOffset(dst, q[1], q[2]) = k - 1
                         IN CompositePixel(op,
                                PixAt(srcNR, PixOffset(srcNR, p[1] - xoff, p[2] - yoff)),
                                dst.pix[k])
                    ELSE dst.pix[k]]])

----------------------------------------------------------------------------
(* The dispatcher.  Buffers live in a heap (buffer name -> pixel store) so *)
(* that a buffer shared between the caller and the engine is visible:      *)
(* "img" is the caller's store, "src" the copy ToNRGBA makes, "out" the    *)
(* store an operation allocates for its result.                            *)

BufIds == {"img", "src", "out"}
NilRef == [rect |-> ZR, buf |-> "nil"]
Deref(heap, ref) == [rect |-> ref.rect, pix |-> heap[ref.buf]]

\* a plausible slip: the type switch returns the caller's *image.NRGBA
ToNRGBA_Alias(heap, ref) == [ref |-> ref, heap |-> heap]

\* ToNRGBA on an *image.NRGBA: NewNRGBA(n.Rect) and copy(out.Pix, n.Pix)
ToNRGBA(heap, ref) ==
    [ref |-> [rect |-> ref.rect, buf |-> "src"],
     heap |-> [heap EXCEPT !["src"] = heap[ref.buf]]]

ErrResult(heap) == [out |-> NilRef, err |-> TRUE, panic |-> FALSE, heap |-> heap]
NoBuffer(heap) == [out |-> NilRef, err |-> FALSE, panic |-> FALSE, heap |-> heap]

\* an operation that returns a buffer of its own
Fresh(heap, r) ==
    IF r.panic THEN [out |-> NilRef, err |-> FALSE, panic |-> TRUE, heap |-> heap]
    ELSE [out |-> [rect |-> r.img.rect, buf |-> "out"], err |-> FALSE, panic |-> FALSE,
          heap |-> [heap EXCEPT !["out"] = r.img.pix]]

\* an operation that writes the buffer it is given and returns it
InPlace(heap, ref, r) ==
    IF r.panic THEN [out |-> NilRef, err |-> FALSE, panic |-> TRUE, heap |-> heap]
    ELSE [out |-> ref, err |-> FALSE, panic |-> FALSE,
          heap |-> [heap EXCEPT ![ref.buf] = r.img.pix]]

\* parseHexColor on the colour strings of the model
HexColor == ("#ff0000" :> Red) @@ ("#0000ff" :> Blue) @@ ("#ffffff" :> White)
            @@ ("#000000" :> Black) @@ ("#00000000" :> Transparent)
parseHexColorOK(s) == s \in DOMAIN HexColor
parseHexColor(s) == HexColor[s]

\* os.Open + image.Decode on the paths of the model
Files == ("a.png" :> [rect |-> Rect(0, 0, 1, 1), pix |-> <<Blue>>])
         @@ ("b.png" :> [rect |-> Rect(0, 0, 2, 2), pix |-> <<White, White, White, White>>])
DecodeOK(path) == path \in DOMAIN Files

----------------------------------------------------------------------------
(* MedianFilter: for every row a window slides from column to column; the  *)
(* histogram of each channel is kept up to date column by column, and the  *)
(* median with it: lastMed, and lastCum, the number of window pixels whose *)
(* value is at most lastMed.                                               *)

\* a slip: the window is the row y alone
MedianWindow_RowOnly(src, radius, x, y) ==
    {<<ox, y>> : ox \in maxInt(0, x - radius)..minInt(Dx(src.rect) - 1, x + radius)}

\* the pixels under the window of column x in row y: rows y-radius..y+radius
\* cut to the image, columns x-radius..x+radius without those outside it
MedianWindow(src, radius, x, y) ==
    {<<ox, oy>> : ox \in maxInt(0, x - radius)..minInt(Dx(src.rect) - 1, x + radius),
                  oy \in maxInt(0, y - radius)..minInt(Dy(src.rect) - 1, y + radius)}

\* the two loops that move lastMed: down while the values below it suffice,
\* then up while they fall short.  vals holds the values of the window, so
\* that hist[a] + ... + hist[b] is the number of them within a..b; each loop
\* ends at the first value on its way at which its test fails
MedianWalk(vals, half, med, cum) ==
    LET cnt(a, b) == Cardinality({p \in DOMAIN vals : a <= vals[p] /\ vals[p] <= b})
        \* lastCum - hist[lastMed] once lastMed has come down to m
        below(m) == cum - cnt(m, med)
        m1 == IF med = 0 \/ below(med) < half THEN med
              ELSE SetMax({m \in 0..med : m = 0 \/ below(m) < half})
        c1 == cum - cnt(m1 + 1, med)
        \* lastCum once lastMed has come up to m
        upto(m) == c1 + cnt(m1 + 1, m)
        m2 == IF m1 = 255 \/ c1 >= half THEN m1
              ELSE SetMin({m \in m1..255 : m = 255 \/ upto(m) >= half})
    IN <<m2, upto(m2)>>

\* a slip: the values of the column that leaves are not taken off lastCum
MedianSlide_StaleCum(src, radius, x, y, ch, med, cum) ==
    LET val(p) == PixAt(src, PixOffset(src, p[1], p[2]))[ch]
        w == Dx(src.rect)
        old == MedianWindow(src, radius, x, y)
        new == MedianWindow(src, radius, x + 1, y)
        removed == IF x - radius >= 0 THEN {p \in old : p[1] = x - radius} ELSE {}
        added == IF x + radius + 1 < w THEN {p \in new : p[1] = x + radius + 1} ELSE {}
        cum1 == cum + Cardinality({p \in added : val(p) <= med})
        count == Cardinality(old) - Cardinality(removed) + Cardinality(added)
    IN MedianWalk([p \in new |-> val(p)], (count + 1) \div 2, med, cum1)

\* the end of a turn of the loop over x: the column x-radius leaves the
\* window, the column x+radius+1 enters it, and the median is moved
MedianSlide(src, radius, x, y, ch, med, cum) ==
    LET val(p) == PixAt(src, PixOffset(src, p[1], p[2]))[ch]
        w == Dx(src.rect)
        old == MedianWindow(src, radius, x, y)
        new == MedianWindow(src, radius, x + 1, y)
        removed == IF x - radius >= 0 THEN {p \in old : p[1] = x - radius} ELSE {}
        added == IF x + radius + 1 < w THEN {p \in new : p[1] = x + radius + 1} ELSE {}
        cum1 == cum - Cardinality({p \in removed : val(p) <= med})
                    + Cardinality({p \in added : val(p) <= med})
        count == Cardinality(old) - Cardinality(removed) + Cardinality(added)
    IN MedianWalk([p \in new |-> val(p)], (count + 1) \div 2, med, cum1)

\* the medians of channel ch in row y from column x on; at x = 0 they start
\* from computeInitialMedian on the first window
RECURSIVE MedianRow(_, _, _, _, _, _, _)
MedianRow(src, radius, x, y, ch, med, cum) ==
    IF x >= Dx(src.rect) THEN <<>>
    ELSE LET val(p) == PixAt(src, PixOffset(src, p[1], p[2]))[ch]
             win == MedianWindow(src, radius, 0, y)
             half == (Cardinality(win) + 1) \div 2
             below(v) == Cardinality({p \in win : val(p) <= v})
             first == IF \E v \in 0..255 : below(v) >= half
                      THEN LET v == SetMin({u \in 0..255 : below(u) >= half})
                           IN <<v, below(v)>>
                      ELSE <<0, 0>>
             st == IF x = 0 THEN first ELSE <<med, cum>>
             next == MedianSlide(src, radius, x, y, ch, st[1], st[2])
         IN <<st[1]>> \o MedianRow(src, radius, x + 1, y, ch, next[1], next[2])

\* a slip: the no-op returns the buffer it allocated, not a copy of src
MedianFilter_BlankNoOp(src, radius) ==
    IF radius <= 0 THEN Ok(NewNRGBA(src.rect))
    ELSE LET out == NewNRGBA(src.rect)
             iter == {<<x, y>> : x \in 0..(Dx(src.rect) - 1), y \in 0..(Dy(src.rect) - 1)}
             rows == [y \in 0..(Dy(src.rect) - 1) |->
                        [ch \in 1..4 |-> MedianRow(src, radius, 0, y, ch, 0, 0)]]
         IN IF \E p \in iter : \/ ~InPix(src, PixOffset(src, p[1], p[2]))
                               \/ ~InPix(out, PixOffset(out, p[1], p[2]))
            THEN Panic
            ELSE Ok([rect |-> out.rect,
                     pix |-> [k \in 1..Len(out.pix) |->
                         IF \E p \in iter : PixOffset(out, p[1], p[2]) = k - 1
                         THEN LET p == CHOOSE q \in iter : PixOffset(out, q[1], q[2]) = k - 1
                              IN [ch \in 1..4 |-> rows[p[2]][ch][p[1] + 1]]
                         ELSE Transparent]])

MedianFilter(src, radius) ==
    IF radius <= 0 THEN Ok(CloneNRGBA(src))
    ELSE LET out == NewNRGBA(src.rect)
             iter == {<<x, y>> : x \in 0..(Dx(src.rect) - 1), y \in 0..(Dy(src.rect) - 1)}
             rows == [y \in 0..(Dy(src.rect) - 1) |->
                        [ch \in 1..4 |-> MedianRow(src, radius, 0, y, ch, 0, 0)]]
         IN IF \E p \in iter : \/ ~InPix(src, PixOffset(src, p[1], p[2]))
                               \/ ~InPix(out, PixOffset(out, p[1], p[2]))
            THEN Panic
            ELSE Ok([rect |-> out.rect,
                     pix |-> [k \in 1..Len(out.pix) |->
                         IF \E p \in iter : PixOffset(out, p[1], p[2]) = k - 1
                         THEN LET p == CHOOSE q \in iter : PixOffset(out, q[1], q[2]) = k - 1
                              IN [ch \in 1..4 |-> rows[p[2]][ch][p[1] + 1]]
                         ELSE Transparent]])

----------------------------------------------------------------------------
(* Level, AddNoise, ComputeHistogram, SepiaTone *)

\* Level(src, blackPoint, gamma, whitePoint) on whole numbers, for gamma 1
\* (math.Pow(v, 1) is v) and gamma <= 0 (no Pow): uint8 cuts the fraction
\* off; exact arithmetic stands for the float64 of the code
Level(src, blackPoint, gamma, whitePoint) ==
    LET out == CloneNRGBA(src)
        iter == {<<x, y>> : x \in 0..(Dx(src.rect) - 1), y \in 0..(Dy(src.rect) - 1)}
        lev(v) == IF v <= blackPoint THEN 0
                  ELSE IF v >= whitePoint THEN 255
                  ELSE ((v - blackPoint) * 255) \div (whitePoint - blackPoint)
    IN IF whitePoint <= blackPoint THEN Ok(out)
       ELSE IF \E p \in iter : ~InPix(src, PixOffset(src, p[1], p[2])) THEN Panic
       ELSE Ok([rect |-> out.rect,
                pix |-> [k \in 1..Len(out.pix) |->
                    IF \E p \in iter : PixOffset(src, p[1], p[2]) = k - 1
                    THEN <<lev(src.pix[k][1]), lev(src.pix[k][2]), lev(src.pix[k][3]),
                           src.pix[k][4]>>
                    ELSE out.pix[k]]])

\* AddNoise(src, typ, amount, seed) for typ UNIFORM and GAUSSIAN: noise[k] is
\* what the generator adds to the three colours of pixel k (a whole number,
\* as the draws of rng are not modelled); the index is taken from absolute
\* coordinates, so every pixel of out is written
AddNoise(src, amount, noise) ==
    LET byte(v) == IF v < 0 THEN 0 ELSE IF v > 255 THEN 255 ELSE v
        out == NewNRGBA(src.rect)
    IN IF amount <= 0 THEN Ok(CloneNRGBA(src))
       ELSE Ok([rect |-> out.rect,
                pix |-> [k \in 1..Len(out.pix) |->
                    <<byte(src.pix[k][1] + noise[k][1]), byte(src.pix[k][2] + noise[k][2]),
                      byte(src.pix[k][3] + noise[k][3]), src.pix[k][4]>>]])

\* a slip: the loop over x stops one column short
ComputeHistogram_ShortRows(src, bins) ==
    LET n == IF bins <= 0 THEN 256 ELSE bins
        iter == {<<x, y>> : x \in 0..(Dx(src.rect) - 2), y \in 0..(Dy(src.rect) - 1)}
        idx(v) == IF (v * n) \div 256 >= n THEN n - 1 ELSE (v * n) \div 256
        hist(ch) == [b \in 1..n |->
                       Cardinality({p \in iter :
                           idx(PixAt(src, PixOffset(src, p[1], p[2]))[ch]) = b - 1})]
    IN IF \E p \in iter : ~InPix(src, PixOffset(src, p[1], p[2]))
       THEN [panic |-> TRUE, r |-> <<>>, g |-> <<>>, b |-> <<>>]
       ELSE [panic |-> FALSE, r |-> hist(1), g |-> hist(2), b |-> hist(3)]

\* ComputeHistogram(src, bins): rHist, gHist, bHist; entry b counts the
\* pixels whose value v has floor(v * bins / 256) = b - 1
ComputeHistogram(src, bins) ==
    LET n == IF bins <= 0 THEN 256 ELSE bins
        iter == {<<x, y>> : x \in 0..(Dx(src.rect) - 1), y \in 0..(Dy(src.rect) - 1)}
        idx(v) == IF (v * n) \div 256 >= n THEN n - 1 ELSE (v * n) \div 256
        hist(ch) == [b \in 1..n |->
                       Cardinality({p \in iter :
                           idx(PixAt(src, PixOffset(src, p[1], p[2]))[ch]) = b - 1})]
    IN IF \E p \in iter : ~InPix(src, PixOffset(src, p[1], p[2]))
       THEN [panic |-> TRUE, r |-> <<>>, g |-> <<>>, b |-> <<>>]
       ELSE [panic |-> FALSE, r |-> hist(1), g |-> hist(2), b |-> hist(3)]

\* one pixel through SepiaTone's arithmetic, by <<colour, percentage, curve>>
\* with percentage and curve in hundredths: sRGB to Lab through the table
\* of 256 entries, the blend toward the Lab of #704214 by
\*   pLocal = percentage * midtoneWeight(L, 50, 20) * highlightProtect(L, 80, 10),
\* the S-curve on L, and back to sRGB through the interpolated table.  The
\* arithmetic is floating point (pow, exp), so the outcomes are tabulated,
\* computed as the code computes them, for the colours of the model and
\* with the midtone and highlight parameters at the dispatcher's defaults.
\* The rows of percentage 0 are what the arithmetic gives when pLocal is 0
SepiaPixel ==
    (<<<<255, 0, 0>>, 0, 0>> :> <<254, 0, 0>>) @@ (<<<<255, 0, 0>>, 0, 12>> :> <<255, 2, 0>>) @@
    (<<<<255, 0, 0>>, 0, 100>> :> <<255, 18, 5>>) @@ (<<<<255, 0, 0>>, 50, 0>> :> <<183, 58, 11>>) @@
    (<<<<255, 0, 0>>, 50, 12>> :> <<181, 57, 10>>) @@ (<<<<255, 0, 0>>, 50, 100>> :> <<172, 49, 1>>) @@
    (<<<<255, 0, 0>>, 100, 0>> :> <<113, 66, 19>>) @@ (<<<<255, 0, 0>>, 100, 12>> :> <<111, 63, 17>>) @@
    (<<<<255, 0, 0>>, 100, 100>> :> <<93, 48, 1>>) @@ (<<<<255, 255, 255>>, 0, 0>> :> <<254, 255, 254>>) @@
    (<<<<255, 255, 255>>, 0, 12>> :> <<254, 255, 254>>) @@ (<<<<255, 255, 255>>, 0, 100>> :> <<254, 255, 254>>) @@
    (<<<<255, 255, 255>>, 50, 0>> :> <<254, 255, 254>>) @@ (<<<<255, 255, 255>>, 50, 12>> :> <<254, 255, 254>>) @@
    (<<<<255, 255, 255>>, 50, 100>> :> <<254, 255, 254>>) @@ (<<<<255, 255, 255>>, 100, 0>> :> <<254, 255, 254>>) @@
    (<<<<255, 255, 255>>, 100, 12>> :> <<254, 255, 254>>) @@ (<<<<255, 255, 255>>, 100, 100>> :> <<254, 255, 254>>) @@
    (<<<<128, 128, 128>>, 0, 0>> :> <<127, 127, 127>>) @@ (<<<<128, 128, 128>>, 0, 12>> :> <<128, 128, 128>>) @@
    (<<<<128, 128, 128>>, 0, 100>> :> <<132, 132, 132>>) @@ (<<<<128, 128, 128>>, 50, 0>> :> <<124, 96, 74>>) @@
    (<<<<128, 128, 128>>, 50, 12>> :> <<123, 95, 73>>) @@ (<<<<128, 128, 128>>, 50, 100>> :> <<115, 88, 66>>) @@
    (<<<<128, 128, 128>>, 100, 0>> :> <<112, 66, 21>>) @@ (<<<<128, 128, 128>>, 100, 12>> :> <<110, 64, 19>>) @@
    (<<<<128, 128, 128>>, 100, 100>> :> <<92, 49, 3>>) @@ (<<<<0, 0, 0>>, 0, 0>> :> <<0, 0, 0>>) @@
    (<<<<0, 0, 0>>, 0, 12>> :> <<0, 0, 0>>) @@ (<<<<0, 0, 0>>, 0, 100>> :> <<0, 0, 0>>) @@
    (<<<<0, 0, 0>>, 50, 0>> :> <<4, 2, 0>>) @@ (<<<<0, 0, 0>>, 50, 12>> :> <<4, 1, 0>>) @@
    (<<<<0, 0, 0>>, 50, 100>> :> <<1, 0, 0>>) @@ (<<<<0, 0, 0>>, 100, 0>> :> <<8, 4, 1>>) @@
    (<<<<0, 0, 0>>, 100, 12>> :> <<8, 3, 0>>) @@ (<<<<0, 0, 0>>, 100, 100>> :> <<3, 0, 0>>) @@
    (<<<<0, 0, 255>>, 0, 0>> :> <<0, 0, 255>>) @@ (<<<<0, 0, 255>>, 0, 12>> :> <<0, 0, 252>>) @@
    (<<<<0, 0, 255>>, 0, 100>> :> <<0, 0, 231>>) @@ (<<<<0, 0, 255>>, 50, 0>> :> <<109, 30, 172>>) @@
    (<<<<0, 0, 255>>, 50, 12>> :> <<107, 27, 170>>) @@ (<<<<0, 0, 255>>, 50, 100>> :> <<88, 0, 151>>) @@
    (<<<<0, 0, 255>>, 100, 0>> :> <<121, 50, 95>>) @@ (<<<<0, 0, 255>>, 100, 12>> :> <<119, 48, 93>>) @@
    (<<<<0, 0, 255>>, 100, 100>> :> <<101, 31, 77>>) @@ (<<<<119, 119, 119>>, 0, 0>> :> <<118, 118, 118>>) @@
    (<<<<119, 119, 119>>, 0, 12>> :> <<119, 119, 119>>) @@ (<<<<119, 119, 119>>, 0, 100>> :> <<119, 119, 119>>) @@
    (<<<<119, 119, 119>>, 50, 0>> :> <<119, 92, 69>>) @@ (<<<<119, 119, 119>>, 50, 12>> :> <<118, 90, 68>>) @@
    (<<<<119, 119, 119>>, 50, 100>> :> <<108, 82, 59>>) @@ (<<<<119, 119, 119>>, 100, 0>> :> <<111, 65, 19>>) @@
    (<<<<119, 119, 119>>, 100, 12>> :> <<109, 63, 17>>) @@ (<<<<119, 119, 119>>, 100, 100>> :> <<91, 48, 0>>) @@
    (<<<<120, 200, 80>>, 0, 0>> :> <<119, 199, 79>>) @@ (<<<<120, 200, 80>>, 0, 12>> :> <<123, 203, 82>>) @@
    (<<<<120, 200, 80>>, 0, 100>> :> <<145, 225, 104>>) @@ (<<<<120, 200, 80>>, 50, 0>> :> <<124, 165, 63>>) @@
    (<<<<120, 200, 80>>, 50, 12>> :> <<126, 167, 65>>) @@ (<<<<120, 200, 80>>, 50, 100>> :> <<141, 182, 79>>) @@
    (<<<<120, 200, 80>>, 100, 0>> :> <<124, 131, 48>>) @@ (<<<<120, 200, 80>>, 100, 12>> :> <<124, 132, 48>>) @@
    (<<<<120, 200, 80>>, 100, 100>> :> <<128, 135, 51>>) @@ (<<<<0, 107, 253>>, 0, 0>> :> <<0, 106, 252>>) @@
    (<<<<0, 107, 253>>, 0, 12>> :> <<0, 106, 252>>) @@ (<<<<0, 107, 253>>, 0, 100>> :> <<0, 105, 251>>) @@
    (<<<<0, 107, 253>>, 50, 0>> :> <<117, 83, 133>>) @@ (<<<<0, 107, 253>>, 50, 12>> :> <<115, 82, 131>>) @@
    (<<<<0, 107, 253>>, 50, 100>> :> <<106, 73, 121>>) @@ (<<<<0, 107, 253>>, 100, 0>> :> <<112, 66, 20>>) @@
    (<<<<0, 107, 253>>, 100, 12>> :> <<109, 63, 17>>) @@ (<<<<0, 107, 253>>, 100, 100>> :> <<91, 48, 1>>)

\* rgbToLab(c).l, rounded to the nearest integer
LabLightness ==
    (<<255, 0, 0>> :> 53) @@ (<<255, 255, 255>> :> 100) @@
    (<<128, 128, 128>> :> 54) @@ (<<0, 0, 0>> :> 0) @@
    (<<0, 0, 255>> :> 32) @@ (<<119, 119, 119>> :> 50) @@
    (<<120, 200, 80>> :> 73) @@ (<<0, 107, 253>> :> 49)

\* the percentage as the arithmetic uses it: above 1 it is taken as 1
SepiaClamp(percentage) == IF percentage > 100 THEN 100 ELSE percentage

\* a slip: the blend is made at half the percentage asked for
SepiaTone_HalfStrength(heap, src, percentage, curve) ==
    LET in == Deref(heap, src)
        out == NewNRGBA(in.rect)
        iter == {<<x, y>> : x \in 0..(Dx(in.rect) - 1), y \in 0..(Dy(in.rect) - 1)}
    IN IF percentage <= 0
       THEN [out |-> src, err |-> FALSE, panic |-> FALSE, heap |-> heap]
       ELSE IF \E p \in iter : ~InPix(in, PixOffset(in, p[1], p[2]))
       THEN Fresh(heap, Panic)
       ELSE Fresh(heap,
                Ok([rect |-> out.rect,
                    pix |-> [k \in 1..Len(out.pix) |->
                       IF \E p \in iter : PixOffset(in, p[1], p[2]) = k - 1
                       THEN IF in.pix[k][4] = 0 THEN in.pix[k]
                            ELSE SepiaPixel[<<RGB(in.pix[k]),
                                              IF SepiaClamp(percentage) = 100 THEN 50 ELSE 0,
                                              curve>>]
                                 \o <<in.pix[k][4]>>
                       ELSE Transparent]]))

\* a slip: only a negative percentage returns src
SepiaTone_StrictZero(heap, src, percentage, curve) ==
    LET in == Deref(heap, src)
        out == NewNRGBA(in.rect)
        iter == {<<x, y>> : x \in 0..(Dx(in.rect) - 1), y \in 0..(Dy(in.rect) - 1)}
    IN IF percentage < 0
       THEN [out |-> src, err |-> FALSE, panic |-> FALSE, heap |-> heap]
       ELSE IF \E p \in iter : ~InPix(in, PixOffset(in, p[1], p[2]))
       THEN Fresh(heap, Panic)
       ELSE Fresh(heap,
                Ok([rect |-> out.rect,
                    pix |-> [k \in 1..Len(out.pix) |->
                       IF \E p \in iter : PixOffset(in, p[1], p[2]) = k - 1
                       THEN IF in.pix[k][4] = 0 THEN in.pix[k]
                            ELSE SepiaPixel[<<RGB(in.pix[k]), SepiaClamp(percentage), curve>>]
                                 \o <<in.pix[k][4]>>
                       ELSE Transparent]]))

\* a slip: the tone is written into src, which is returned
SepiaTone_InPlace(heap, src, percentage, curve) ==
    LET in == Deref(heap, src)
        iter == {<<x, y>> : x \in 0..(Dx(in.rect) - 1), y \in 0..(Dy(in.rect) - 1)}
    IN IF percentage <= 0
       THEN [out |-> src, err |-> FALSE, panic |-> FALSE, heap |-> heap]
       ELSE IF \E p \in iter : ~InPix(in, PixOffset(in, p[1], p[2]))
       THEN Fresh(heap, Panic)
       ELSE InPlace(heap, src,
                Ok([rect |-> in.rect,
                    pix |-> [k \in 1..Len(in.pix) |->
                       IF (\E p \in iter : PixOffset(in, p[1], p[2]) = k - 1)
                          /\ in.pix[k][4] # 0
                       THEN SepiaPixel[<<RGB(in.pix[k]), SepiaClamp(percentage), curve>>]
                            \o <<in.pix[k][4]>>
                       ELSE in.pix[k]]]))

\* SepiaTone(src, percentage, ...): [out, err, panic, heap].  A percentage
\* <= 0 returns src itself.  Otherwise out is allocated; a pixel of alpha 0
\* is copied, any other keeps its alpha and takes the colour the arithmetic
\* gives it.  percentage and curve are in hundredths
SepiaTone(heap, src, percentage, curve) ==
    LET in == Deref(heap, src)
        out == NewNRGBA(in.rect)
        iter == {<<x, y>> : x \in 0..(Dx(in.rect) - 1), y \in 0..(Dy(in.rect) - 1)}
    IN IF percentage <= 0
       THEN [out |-> src, err |-> FALSE, panic |-> FALSE, heap |-> heap]
       ELSE IF \E p \in iter : ~InPix(in, PixOffset(in, p[1], p[2]))
       THEN Fresh(heap, Panic)
       ELSE Fresh(heap,
                Ok([rect |-> out.rect,
                    pix |-> [k \in 1..Len(out.pix) |->
                       IF \E p \in iter : PixOffset(in, p[1], p[2]) = k - 1
                       THEN IF in.pix[k][4] = 0 THEN in.pix[k]
                            ELSE SepiaPixel[<<RGB(in.pix[k]), SepiaClamp(percentage), curve>>]
                                 \o <<in.pix[k][4]>>
                       ELSE Transparent]]))

\* one colour value v under the mask at squared distance d2 from the centre,
\* for radius 2 and sigma 1: uint8(v * (1 - mask)) with
\*   mask = (1 - exp(-d2/2)) / (1 - exp(-2)),
\* tabulated as the code computes it, for the values of the model
VignetteChannel ==
    (<<0, 1>> :> 0) @@ (<<0, 2>> :> 0) @@ (<<255, 1>> :> 138) @@ (<<255, 2>> :> 68) @@
    (<<128, 1>> :> 69) @@ (<<128, 2>> :> 34) @@ (<<119, 1>> :> 64) @@ (<<119, 2>> :> 32) @@
    (<<107, 1>> :> 58) @@ (<<107, 2>> :> 28) @@ (<<253, 1>> :> 137) @@ (<<253, 2>> :> 68) @@
    (<<120, 1>> :> 65) @@ (<<120, 2>> :> 32) @@ (<<200, 1>> :> 108) @@ (<<200, 2>> :> 53) @@
    (<<80, 1>> :> 43) @@ (<<80, 2>> :> 21) @@ (<<254, 1>> :> 138) @@ (<<254, 2>> :> 68) @@
    (<<250, 1>> :> 136) @@ (<<250, 2>> :> 67)

\* Vignette(src, radius, sigma, cx, cy, strength), for radius > 0 and
\* sigma > 0: the mask is 0 at the centre, 1 from the radius on, and each
\* colour is multiplied by 1 - mask; alpha is kept.  strength is a parameter
\* that the body does not read
Vignette(src, radius, sigma, cx, cy, strength) ==
    LET out == NewNRGBA(src.rect)
        iter == {<<x, y>> : x \in src.rect.minX..(src.rect.maxX - 1),
                            y \in src.rect.minY..(src.rect.maxY - 1)}
        d2(p) == (p[1] - cx) * (p[1] - cx) + (p[2] - cy) * (p[2] - cy)
        dark(v, p) == IF d2(p) = 0 THEN v
                      ELSE IF d2(p) >= radius * radius THEN 0
                      ELSE VignetteChannel[<<v, d2(p)>>]
    IN Ok([rect |-> out.rect,
           pix |-> [k \in 1..Len(out.pix) |->
               LET p == CHOOSE q \in iter : PixOffset(src, q[1], q[2]) = k - 1
               IN <<dark(src.pix[k][1], p), dark(src.pix[k][2], p),
                    dark(src.pix[k][3], p), src.pix[k][4]>>]])

\* AdaptiveResize(src, width, height, a): a side given as 0 follows the
\* aspect ratio (int() cuts the fraction off); no size, or a side that comes
\* out <= 0, returns a clone
AdaptiveResize(src, width, height) ==
    LET sw == Dx(src.rect)
        h == Dy(src.rect)
        \* int(float64(n) / float64(d)) for d >= 0.  By 0 the quotient of a
        \* numerator <= 0 is -Inf or NaN, and int() of either is not positive
        \* on any build: -1 stands for it (a numerator > 0 over 0 does not
        \* occur on the calls of the model)
        quot(n, d) == IF d = 0 THEN -1
                      ELSE IF n < 0 THEN -((-n) \div d) ELSE n \div d
        w == IF width = 0 THEN quot(sw * height, h) ELSE width
        hh == IF height = 0 THEN quot(h * w, sw) ELSE height
    IN IF width = 0 /\ height = 0 THEN Ok(CloneNRGBA(src))
       ELSE IF w <= 0 \/ hh <= 0 THEN Ok(CloneNRGBA(src))
       ELSE ResampleLanczos(src, w, hh)

\* RenderHistogramImage(rHist, gHist, bHist, 512, 120)
HistogramWidth == 512
HistogramHeight == 120

----------------------------------------------------------------------------
(* The cases of the dispatcher *)

\* a slip: a width that does not parse is taken as 0
ResizeCmd_DefaultWidth(heap, src, args) ==
    IF Len(args) # 2 THEN ErrResult(heap)
    ELSE IF ~AtoiOK(args[2]) THEN ErrResult(heap)
    ELSE Fresh(heap, ResampleLanczos(Deref(heap, src),
                        IF AtoiOK(args[1]) THEN Atoi(args[1]) ELSE 0, Atoi(args[2])))

ResizeCmd(heap, src, args) ==
    IF Len(args) # 2 THEN ErrResult(heap)
    ELSE IF ~AtoiOK(args[1]) THEN ErrResult(heap)
    ELSE IF ~AtoiOK(args[2]) THEN ErrResult(heap)
    ELSE Fresh(heap, ResampleLanczos(Deref(heap, src), Atoi(args[1]), Atoi(args[2])))

CropCmd(heap, src, args) ==
    IF Len(args) # 4 THEN ErrResult(heap)
    ELSE IF \E i \in 1..4 : ~AtoiOK(args[i]) THEN ErrResult(heap)
    ELSE Fresh(heap, CropImage(Deref(heap, src), Atoi(args[1]), Atoi(args[2]),
                               Atoi(args[3]), Atoi(args[4])))

FlipCmd(heap, src, args) == Fresh(heap, FlipImage(Deref(heap, src), TRUE))
\* a slip: the buffer allocated and returned is w x w, not w x h
FlopCmd_Square(heap, src, args) ==
    Fresh(heap, IF FlipImage(Deref(heap, src), FALSE).panic THEN Panic
                ELSE Ok(NewNRGBA(Rect(0, 0, Dx(src.rect), Dx(src.rect)))))

FlopCmd(heap, src, args) == Fresh(heap, FlipImage(Deref(heap, src), FALSE))

\* "5%" is 5*255/100; fuzz is handed to Trim in hundredths
TrimCmd(heap, src, args) ==
    IF Len(args) < 1 THEN ErrResult(heap)
    ELSE IF HasPercentSuffix(args[1])
         THEN IF ~ParseFloatOK(PercentBody[args[1]]) THEN ErrResult(heap)
              ELSE Fresh(heap, Trim(Deref(heap, src), 255 * ParseFloat(PercentBody[args[1]])))
         ELSE IF ~ParseFloatOK(args[1]) THEN ErrResult(heap)
              ELSE Fresh(heap, Trim(Deref(heap, src), 100 * ParseFloat(args[1])))

CompositeCmd(heap, src, args) ==
    IF Len(args) # 4 THEN ErrResult(heap)
    ELSE IF ~AtoiOK(args[3]) \/ ~AtoiOK(args[4]) THEN ErrResult(heap)
    ELSE IF ~DecodeOK(args[1]) THEN ErrResult(heap)
    ELSE InPlace(heap, src, Composite(Deref(heap, src), Files[args[1]], args[2],
                                      Atoi(args[3]), Atoi(args[4])))

FloodfillCmd(heap, src, args) ==
    IF Len(args) < 5 THEN ErrResult(heap)
    ELSE IF Len(args) >= 6 /\ args[6] # "" /\ ~ParseBoolOK(args[6]) THEN ErrResult(heap)
    ELSE IF ~parseHexColorOK(args[1]) THEN ErrResult(heap)
    ELSE IF args[3] # "" /\ ~parseHexColorOK(args[3]) THEN ErrResult(heap)
    ELSE IF ~ParseFloatOK(IF HasPercentSuffix(args[2]) THEN PercentBody[args[2]]
                          ELSE args[2]) THEN ErrResult(heap)
    ELSE IF ~AtoiOK(args[4]) \/ ~AtoiOK(args[5]) THEN ErrResult(heap)
    ELSE Fresh(heap,
            FloodfillPaint(Deref(heap, src), parseHexColor(args[1]),
                ParseFloat(IF HasPercentSuffix(args[2]) THEN PercentBody[args[2]]
                           ELSE args[2]),
                IF args[3] # "" THEN parseHexColor(args[3]) ELSE Transparent,
                Atoi(args[4]), Atoi(args[5]),
                Len(args) >= 6 /\ args[6] # "" /\ ParseBool(args[6])))

\* vignette radius sigma x y [strength]: strength is "50%" or a fraction,
\* clamped to [0, 1]; in hundredths
VignetteCmd(heap, src, args) ==
    LET given == Len(args) >= 5 /\ args[5] # ""
        sstr == IF HasPercentSuffix(args[5]) THEN PercentBody[args[5]] ELSE args[5]
        s == IF HasPercentSuffix(args[5]) THEN ParseFloat(sstr) ELSE 100 * ParseFloat(sstr)
        strength == IF ~given THEN 100 ELSE IF s < 0 THEN 0 ELSE IF s > 100 THEN 100 ELSE s
    IN IF Len(args) < 4 THEN ErrResult(heap)
       ELSE IF ~ParseFloatOK(args[1]) \/ ~ParseFloatOK(args[2]) THEN ErrResult(heap)
       ELSE IF ~AtoiOK(args[3]) \/ ~AtoiOK(args[4]) THEN ErrResult(heap)
       ELSE IF given /\ ~ParseFloatOK(sstr) THEN ErrResult(heap)
       ELSE Fresh(heap, Vignette(Deref(heap, src), ParseFloat(args[1]), ParseFloat(args[2]),
                                 Atoi(args[3]), Atoi(args[4]), strength))

\* sepia [percentage midtoneCenter midtoneSigma highlightThreshold
\* highlightSoftness curve]: "50%", "50" and "0.5" are the same percentage,
\* a number up to 1 is a fraction; an argument that is empty or does not
\* parse leaves its default (but the percentage, which is then an error).
\* The model passes the curve only; in hundredths
SepiaDefaultCurve == 12
SepiaCmd(heap, src, args) ==
    LET given == Len(args) >= 1 /\ args[1] # ""
        pstr == IF HasPercentSuffix(args[1]) THEN PercentBody[args[1]] ELSE args[1]
        v == ParseFloat(pstr)
        p == IF HasPercentSuffix(args[1]) THEN v
             ELSE IF v > 1 THEN v ELSE 100 * v
        percentage == IF ~given THEN 100
                      ELSE IF p < 0 THEN 0 ELSE IF p > 100 THEN 100 ELSE p
        c == IF Len(args) >= 6 /\ args[6] # "" /\ ParseFloatOK(args[6])
             THEN 100 * ParseFloat(args[6]) ELSE SepiaDefaultCurve
        curve == IF c < 0 THEN 0 ELSE IF c > 100 THEN 100 ELSE c
    IN IF given /\ ~ParseFloatOK(pstr) THEN ErrResult(heap)
       ELSE SepiaTone(heap, src, percentage, curve)

\* ApplyCommandStdlib(img, commandName, args) on the caller's image img:
\* [out, err, panic, heap], the heap as the call leaves it
ApplyCommandStdlib(img, commandName, args) ==
    LET h0 == [b \in BufIds |-> IF b = "img" THEN img.pix ELSE <<>>]
        t == ToNRGBA(h0, [rect |-> img.rect, buf |-> "img"])
        src == t.ref
        h == t.heap
    IN CASE commandName = "resize" -> ResizeCmd(h, src, args)
         [] commandName = "crop" -> CropCmd(h, src, args)
         [] commandName = "flip" -> FlipCmd(h, src, args)
         [] commandName = "flop" -> FlopCmd(h, src, args)
         [] commandName = "trim" -> TrimCmd(h, src, args)
         [] commandName = "composite" -> CompositeCmd(h, src, args)
         [] commandName = "floodfillPaint" -> FloodfillCmd(h, src, args)
         [] commandName = "sepia" -> SepiaCmd(h, src, args)
         [] commandName = "vignette" -> VignetteCmd(h, src, args)
         [] commandName = "medianFilter" ->
               IF Len(args) # 1 \/ ~AtoiOK(args[1]) THEN ErrResult(h)
               ELSE Fresh(h, MedianFilter(Deref(h, src), Atoi(args[1])))
         [] commandName = "level" ->
               IF Len(args) # 3 \/ \E i \in 1..3 : ~ParseFloatOK(args[i]) THEN ErrResult(h)
               ELSE Fresh(h, Level(Deref(h, src), ParseFloat(args[1]), ParseFloat(args[2]),
                                   ParseFloat(args[3])))
         [] commandName = "adaptiveResize" ->
               Fresh(h, AdaptiveResize(Deref(h, src),
                        IF Len(args) >= 1 /\ AtoiOK(args[1]) THEN Atoi(args[1]) ELSE 0,
                        IF Len(args) >= 2 /\ AtoiOK(args[2]) THEN Atoi(args[2]) ELSE 0))
         [] commandName = "histogram" ->
               \* the drawing of the curves is not modelled: the buffer that
               \* comes back has its rectangle only
               IF ComputeHistogram(Deref(h, src),
                      IF Len(args) > 0 /\ AtoiOK(args[1]) /\ Atoi(args[1]) > 0
                      THEN Atoi(args[1]) ELSE 256).panic
               THEN Fresh(h, Panic)
               ELSE Fresh(h, Ok([rect |-> Rect(0, 0, HistogramWidth, HistogramHeight),
                                 pix |-> <<>>]))
         [] commandName = "identify" -> NoBuffer(h)
         [] commandName = "strip" ->
               [out |-> src, err |-> FALSE, panic |-> FALSE, heap |-> h]
         [] OTHER -> ErrResult(h)

----------------------------------------------------------------------------
(* The interactive session: RunCLI keeps the current image and hands it to *)
(* ApplyCommandStdlib with each command; a buffer that comes back becomes  *)
(* the current image.                                                      *)

\* decoded images: a ramp whose pixels are all different (red, alpha
\* falling), and an image with a white first column and red elsewhere
Ramp(w, h) == [rect |-> Rect(0, 0, w, h),
               pix |-> [k \in 1..(w * h) |-> <<255, 0, 0, 256 - k>>]]
Banded(w, h) == [rect |-> Rect(0, 0, w, h),
                 pix |-> [k \in 1..(w * h) |-> IF (k - 1) % w = 0 THEN White ELSE Red]]
\* the files the session is started on
DecodedImages ==
    {Ramp(MaxW, MaxH), Banded(MaxW, MaxH), Ramp(MaxW, 1), Banded(1, MaxH)}

AsImage(v) == [rect |-> v.rect, pix |-> v.pix, nil |-> FALSE]

\* the argument lists the session tries: well-formed ones, and for every
\* command with required arguments a list that is too short and one with
\* an argument that does not parse
ResizeArgs ==
    {<<"2", "1">>, <<"1", "2">>, <<"0", "2">>, <<"-1", "1">>,
     <<"x", "1">>, <<"1", "x">>, <<"1">>}
CropArgs ==
    {<<w, "1", x, y>> : w \in {"1", "2"}, x \in {"0", "1"}, y \in {"0", "1"}}
    \cup {<<"2", "2", "0", "0">>, <<"-1", "1", "1", "0">>, <<"2", "2", "3", "3">>,
          <<"1", "x", "0", "0">>, <<"1", "1", "0">>}
TrimArgs == {<<"0">>, <<"5%">>, <<"x">>, <<"x%">>, <<>>}
CompositeArgs ==
    {<<"a.png", "over", "0", "0">>, <<"a.png", "over", "1", "0">>,
     <<"b.png", "over", "-1", "0">>, <<"missing.png", "over", "0", "0">>,
     <<"a.png", "over", "x", "0">>, <<"a.png", "over", "0">>}
FloodfillArgs ==
    {<<"#0000ff", "0", "", "0", "0">>, <<"#0000ff", "2", "#ffffff", "1", "0">>,
     <<"#0000ff", "0", "", "1", "0", "true">>, <<"zz", "0", "", "0", "0">>,
     <<"#0000ff", "x", "", "0", "0">>, <<"#0000ff", "0", "", "x", "0">>,
     <<"#0000ff", "0", "", "0", "0", "maybe">>, <<"#0000ff", "0", "", "0">>}

SessionInit ==
    /\ cur \in {AsImage(d) : d \in DecodedImages}
    /\ ncmds = 0
    /\ panicked = FALSE
    /\ last = [cmd |-> "", args |-> <<>>, err |-> FALSE, panic |-> FALSE,
               arg |-> NilImage, argAfter |-> NilImage, out |-> NilImage]

\* newImg, err := ApplyCommandStdlib(cur, commandName, args);
\* if err != nil { continue }; if newImg != nil { cur = newImg }
Apply(commandName, args) ==
    \E res \in {ApplyCommandStdlib(cur, commandName, args)} :
      \E newImg \in {IF res.err \/ res.panic \/ res.out.buf = "nil" THEN NilImage
                      ELSE AsImage(Deref(res.heap, res.out))} :
        /\ panicked' = res.panic
        /\ cur' = IF newImg.nil THEN cur ELSE newImg
        /\ last' = [cmd |-> commandName, args |-> args, err |-> res.err,
                    panic |-> res.panic, arg |-> cur,
                    argAfter |-> AsImage([rect |-> cur.rect, pix |-> res.heap["img"]]),
                    out |-> newImg]
        /\ ncmds' = ncmds + 1
        /\ UNCHANGED notSession

\* the prompt is up: the process lives and the session goes on
Prompt == ~panicked /\ ncmds < MaxCmds

DoResize == Prompt /\ \E args \in ResizeArgs : Apply("resize", args)
DoCrop == Prompt /\ \E args \in CropArgs : Apply("crop", args)
DoFlip == Prompt /\ Apply("flip", <<>>)
DoFlop == Prompt /\ Apply("flop", <<>>)
DoTrim == Prompt /\ \E args \in TrimArgs : Apply("trim", args)
DoComposite == Prompt /\ \E args \in CompositeArgs : Apply("composite", args)
DoFloodfill == Prompt /\ \E args \in FloodfillArgs : Apply("floodfillPaint", args)
DoIdentify == Prompt /\ Apply("identify", <<>>)
DoStrip == Prompt /\ Apply("strip", <<>>)
DoUnknown == Prompt /\ Apply("bogus", <<"1">>)

SessionNext ==
    \/ DoResize \/ DoCrop \/ DoFlip \/ DoFlop \/ DoTrim \/ DoComposite
    \/ DoFloodfill \/ DoIdentify \/ DoStrip \/ DoUnknown

\* FloodfillPaint is not running
FloodIdle ==
    /\ ffin = <<>>
    /\ mask = {}
    /\ stackSeeds = <<>>
    /\ ffpc = "idle"
    /\ ffout = <<>>

\* Composite is not running
CompIdle ==
    /\ cin = <<>>
    /\ cout = <<>>
    /\ cpc = "idle"

\* no row-parallel operation is running
WorkersIdle ==
    /\ wcfg = <<>>
    /\ wpc = "idle"
    /\ wi = 0
    /\ goroutines = <<>>
    /\ writers = <<>>
    /\ wg = 0
    /\ received = 0

\* no SepiaTone call has been made: the Once is unused, the tables are zero
OnceIdle ==
    /\ sepiaLUTOnce = [done |-> 0, m |-> 0]
    /\ lutWrites = <<>>
    /\ sepiaCalls = <<>>

\* no engine function is being called directly
EngineIdle ==
    /\ ebuf = NilImage
    /\ ecalls = <<>>

\* no file is being opened and saved
JpegIdle ==
    /\ jfile = <<>>
    /\ jloaded = [appSegments |-> <<>>, orientation |-> 1, autoOriented |-> FALSE]
    /\ jout = <<>>
    /\ jpc = "idle"

\* buildPoissonCDFs is not being called
CdfsIdle ==
    /\ pcfg = <<>> /\ pmain = <<>> /\ pq = <<>> /\ pclosed = FALSE
    /\ pwk = <<>> /\ pwgc = 0 /\ ptaken = <<>> /\ pcdfs = <<>>

\* AdaptiveBlurPerPixel is not being called
VarianceIdle == vin = <<>> /\ vst = <<>>

\* no command is at the prompts
NormalizeIdle == nin = <<>> /\ nst = <<>>

Init == SessionInit /\ FloodIdle /\ CompIdle /\ WorkersIdle /\ OnceIdle /\ EngineIdle /\ JpegIdle /\ CdfsIdle /\ VarianceIdle /\ NormalizeIdle
Next == SessionNext
Spec == Init /\ [][Next]_vars

----------------------------------------------------------------------------
(* FloodfillPaint, one turn of its loops at a time *)

\* no session is running
SessionIdle ==
    /\ cur = NilImage
    /\ ncmds = 0
    /\ panicked = FALSE
    /\ last = [cmd |-> "", args |-> <<>>, err |-> FALSE, panic |-> FALSE,
               arg |-> NilImage, argAfter |-> NilImage, out |-> NilImage]

MaxMarks == 2    \* pixels of an image that differ from its background

\* the images that are filled: red, with at most MaxMarks pixels that are
\* all white or all of a red within fuzz 2 of the background
Marked(S, c) ==
    [rect |-> Rect(0, 0, MaxW, MaxH),
     pix |-> [k \in 1..(MaxW * MaxH) |-> IF k \in S THEN c ELSE Red]]
FloodImages ==
    {Marked(S, c) : S \in {T \in SUBSET (1..(MaxW * MaxH)) : Cardinality(T) <= MaxMarks},
                    c \in {White, Red2}}
FloodSeeds == {<<0, 0>>, <<1, 1>>, <<-1, 0>>, <<MaxW, 1>>}
FloodFuzz == {0, 2}
FloodBorders == {Transparent, White, Red}

FloodInit ==
    /\ \E src \in FloodImages, s \in FloodSeeds, fuzz \in FloodFuzz,
          borderColor \in FloodBorders, invert \in BOOLEAN :
          ffin = FFContext(src, Blue, fuzz, borderColor, s[1], s[2], invert)
    /\ mask = {}
    /\ stackSeeds = IF ~ffin.useBorder /\ ffin.invert THEN <<>>
                    ELSE <<<<ffin.x, ffin.y>>>>
    /\ ffpc = IF ~ffin.useBorder /\ ffin.invert THEN "global" ELSE "discover"
    /\ ffout = <<>>

\* "if !useBorder && invert": the loop over the whole image
FFMarkMatching ==
    /\ ffpc = "global"
    /\ mask' = FFGlobalMask(ffin)
    /\ ffpc' = "marked"
    /\ UNCHANGED <<ffin, stackSeeds, ffout, notFlood>>

\* a turn of "for len(stackSeeds) > 0" that ends in a continue
FFDropSeed ==
    /\ ffpc = "discover"
    /\ stackSeeds # <<>>
    /\ FFDiscarded(ffin, mask, stackSeeds[Len(stackSeeds)])
    /\ stackSeeds' = FFStep(ffin, [mask |-> mask, stack |-> stackSeeds]).stack
    /\ UNCHANGED <<ffin, mask, ffpc, ffout, notFlood>>

\* a turn that marks a span and pushes the seeds of the adjacent rows
FFFillSpan ==
    /\ ffpc = "discover"
    /\ stackSeeds # <<>>
    /\ ~FFDiscarded(ffin, mask, stackSeeds[Len(stackSeeds)])
    /\ \E st \in {FFStep(ffin, [mask |-> mask, stack |-> stackSeeds])} :
          mask' = st.mask /\ stackSeeds' = st.stack
    /\ UNCHANGED <<ffin, ffpc, ffout, notFlood>>

\* "if invert": the flip, once the region is known
FFInvert ==
    /\ \/ ffpc = "marked"
       \/ ffpc = "discover" /\ stackSeeds = <<>>
    /\ mask' = FFInvertMask(ffin, mask)
    /\ ffpc' = "composite"
    /\ UNCHANGED <<ffin, stackSeeds, ffout, notFlood>>

\* the clone, the compositing of every row, and the return
FFCompositeRows ==
    /\ ffpc = "composite"
    /\ ffout' = FFComposite(ffin, mask)
    /\ ffpc' = "done"
    /\ UNCHANGED <<ffin, mask, stackSeeds, notFlood>>

FloodNext == FFMarkMatching \/ FFDropSeed \/ FFFillSpan \/ FFInvert \/ FFCompositeRows

InitFlood ==
    FloodInit /\ SessionIdle /\ CompIdle /\ WorkersIdle /\ OnceIdle /\ EngineIdle /\ JpegIdle /\ CdfsIdle /\ VarianceIdle /\ NormalizeIdle
SpecFlood == InitFlood /\ [][FloodNext]_vars
\* the call runs on: while a step of it is possible, one is taken in the end
SpecFloodFair == SpecFlood /\ WF_vars(FloodNext)

----------------------------------------------------------------------------
(* Composite, called on its own *)

\* img with its rectangle moved by (dx, dy), as a crop of a larger image is
Moved(img, dx, dy) == [rect |-> RectAdd(img.rect, dx, dy), pix |-> img.pix]

\* w x h pixels of the colour c
Solid(w, h, c) == [rect |-> Rect(0, 0, w, h), pix |-> [k \in 1..(w * h) |-> c]]

\* sources that are neither opaque nor fully transparent: black and blue at
\* alpha 128, and a red with a trace of green at alpha 1
SemiSrcs ==
    {Solid(1, 1, <<0, 0, 0, 128>>), Solid(1, 1, <<0, 0, 255, 128>>),
     Solid(1, 1, <<255, 1, 0, 1>>),
     [rect |-> Rect(0, 0, 2, 1), pix |-> <<<<0, 0, 0, 128>>, <<0, 0, 255, 128>>>>]}

CompDsts == {Ramp(MaxW, MaxH), Moved(Ramp(MaxW, MaxH), 1, 1),
             Banded(MaxW, MaxH), Solid(MaxW, MaxH, Black)}
CompSrcs == {Files[f] : f \in DOMAIN Files} \cup SemiSrcs
CompOps == DOMAIN UpperOf
CompXoffs == {-2, -1, 0, 1, MaxW + 1}
CompYoffs == {-1, 0, 1, MaxH + 1}

CompInit ==
    /\ cin \in [dst : CompDsts, src : CompSrcs, op : CompOps,
                xoff : CompXoffs, yoff : CompYoffs]
    /\ cout = <<>>
    /\ cpc = "call"

\* Composite(dst, src, op, xoff, yoff) returns: cout is dst's store then
CompReturn ==
    /\ cpc = "call"
    /\ \E r \in {Composite(cin.dst, cin.src, cin.op, cin.xoff, cin.yoff)} :
          /\ cout' = IF r.panic THEN cin.dst ELSE r.img
          /\ cpc' = IF r.panic THEN "panic" ELSE "done"
    /\ UNCHANGED <<cin, notComp>>

CompNext == CompReturn

InitComposite ==
    CompInit /\ SessionIdle /\ FloodIdle /\ WorkersIdle /\ OnceIdle /\ EngineIdle /\ JpegIdle /\ CdfsIdle /\ VarianceIdle /\ NormalizeIdle
SpecComposite == InitComposite /\ [][CompNext]_vars

----------------------------------------------------------------------------
(* The row-parallel operations: the blending of AdaptiveBlurPerPixel, the  *)
(* parallel path of SepiaTone, the compositing of FloodfillPaint, and the  *)
(* two passes of SeparableGaussianBlur.  The caller starts goroutines in a *)
(* loop and waits; a goroutine writes the rows (or the column) it was      *)
(* given and signals.                                                      *)

MaxRows == 5     \* rows (and columns) of the image
MaxCPU == 4      \* runtime.NumCPU() / GOMAXPROCS
SepiaMinRows == 64

WorkerOps == {"adaptiveBlur", "sepia", "floodfill", "blur"}

\* a slip: the rows are shared out rounding down
rowsPer_Floor(h, workers) == h \div workers

\* rowsPerWorker / chunk / rowsPer: (h + workers - 1) / workers
rowsPer(h, workers) == (h + workers - 1) \div workers

\* SepiaTone takes the single-threaded path
Sequential(c) == c.op = "sepia" /\ (c.h < SepiaMinRows \/ c.ncpu <= 1)

\* the bound of the caller's loop in the given pass
LoopLen(c, pass) ==
    CASE c.op = "adaptiveBlur" -> IF c.ncpu > c.h THEN c.h ELSE c.ncpu
      [] c.op = "blur" -> IF pass = 1 THEN c.h ELSE c.w
      [] OTHER -> c.ncpu

\* the rows [lo, hi) the loop computes at index i (for blur, row or column i)
RangeOf(c, pass, i) ==
    IF c.op = "blur" THEN [lo |-> i, hi |-> i + 1]
    ELSE LET n == rowsPer(c.h, LoopLen(c, pass))
             lo == i * n
         IN [lo |-> lo, hi |-> IF lo + n > c.h THEN c.h ELSE lo + n]

PassOf(pc) == IF pc \in {"spawn2", "wait2"} THEN 2 ELSE 1

WorkersInit ==
    /\ wcfg \in
         [op : {"adaptiveBlur", "floodfill"}, h : 1..MaxRows, w : {1}, ncpu : 1..MaxCPU]
         \cup [op : {"sepia"}, h : {MaxRows, SepiaMinRows, SepiaMinRows + MaxRows},
               w : {1}, ncpu : 1..MaxCPU]
         \cup [op : {"blur"}, h : 1..MaxRows, w : {1, 2}, ncpu : 1..MaxCPU]
    /\ wpc = "spawn"
    /\ wi = 0
    /\ goroutines = <<>>
    /\ writers = [k \in ({1} \X (0..(wcfg.h - 1)))
                        \cup (IF wcfg.op = "blur" THEN {2} \X (0..(wcfg.w - 1)) ELSE {})
                  |-> {}]
    /\ wg = IF wcfg.op = "floodfill" THEN LoopLen(wcfg, 1) ELSE 0   \* wg.Add(workers)
    /\ received = 0

\* the single-threaded path of SepiaTone: the caller writes every row
WSequential ==
    /\ wpc = "spawn"
    /\ Sequential(wcfg)
    /\ writers' = [k \in DOMAIN writers |-> writers[k] \cup {"caller"}]
    /\ wpc' = "returned"
    /\ UNCHANGED <<wcfg, wi, goroutines, wg, received, notWorkers>>

\* one turn of the loop that ends in "go func(...)"
WStart ==
    /\ wpc \in {"spawn", "spawn2"}
    /\ ~Sequential(wcfg)
    /\ wi < LoopLen(wcfg, PassOf(wpc))
    /\ \E r \in {RangeOf(wcfg, PassOf(wpc), wi)} :
          /\ wcfg.op \in {"floodfill", "blur"} \/ r.lo < r.hi
          /\ goroutines' = Append(goroutines,
                                  [pass |-> PassOf(wpc), lo |-> r.lo, hi |-> r.hi,
                                   st |-> "running"])
    /\ wg' = IF wcfg.op \in {"sepia", "blur"} THEN wg + 1 ELSE wg    \* wg.Add(1)
    /\ wi' = wi + 1
    /\ UNCHANGED <<wcfg, wpc, writers, received, notWorkers>>

\* one turn of the loop with an empty range: no goroutine; the adaptive
\* blur puts the token on the done channel itself
WSkip ==
    /\ wpc = "spawn"
    /\ ~Sequential(wcfg)
    /\ wcfg.op \in {"adaptiveBlur", "sepia"}
    /\ wi < LoopLen(wcfg, 1)
    /\ RangeOf(wcfg, 1, wi).lo >= RangeOf(wcfg, 1, wi).hi
    /\ wg' = IF wcfg.op = "adaptiveBlur" THEN wg + 1 ELSE wg
    /\ wi' = wi + 1
    /\ UNCHANGED <<wcfg, wpc, goroutines, writers, received, notWorkers>>

\* the loop is over: the caller goes on to wait
WLoopEnd ==
    /\ wpc \in {"spawn", "spawn2"}
    /\ ~Sequential(wcfg)
    /\ wi = LoopLen(wcfg, PassOf(wpc))
    /\ wpc' = IF wpc = "spawn" THEN "wait" ELSE "wait2"
    /\ UNCHANGED <<wcfg, wi, goroutines, writers, wg, received, notWorkers>>

\* goroutine g writes its rows (in pass 2 of blur, its column)
WRun(g) ==
    /\ goroutines[g].st = "running"
    /\ writers' = [k \in DOMAIN writers |->
                     IF /\ k[1] = goroutines[g].pass
                        /\ goroutines[g].lo <= k[2] /\ k[2] < goroutines[g].hi
                     THEN writers[k] \cup {g} ELSE writers[k]]
    /\ goroutines' = [goroutines EXCEPT ![g].st = "written"]
    /\ UNCHANGED <<wcfg, wpc, wi, wg, received, notWorkers>>

\* goroutine g ends: wg.Done(), or a token on the done channel
WDone(g) ==
    /\ goroutines[g].st = "written"
    /\ goroutines' = [goroutines EXCEPT ![g].st = "finished"]
    /\ wg' = IF wcfg.op = "adaptiveBlur" THEN wg + 1 ELSE wg - 1
    /\ UNCHANGED <<wcfg, wpc, wi, writers, received, notWorkers>>

\* the caller of the adaptive blur takes one token off the done channel
WReceive ==
    /\ wpc = "wait"
    /\ wcfg.op = "adaptiveBlur"
    /\ received < LoopLen(wcfg, 1)
    /\ wg > 0
    /\ wg' = wg - 1
    /\ received' = received + 1
    /\ UNCHANGED <<wcfg, wpc, wi, goroutines, writers, notWorkers>>

\* a slip: the caller does not wait
WaitOver_NoWait == TRUE

\* what the caller waits for: wg.Wait(), or one receive per worker
WaitOver ==
    IF wcfg.op = "adaptiveBlur" THEN received = LoopLen(wcfg, 1) ELSE wg = 0

\* the horizontal pass of blur is over: on to the vertical pass
WNextPass ==
    /\ wpc = "wait"
    /\ wcfg.op = "blur"
    /\ WaitOver
    /\ wpc' = "spawn2"
    /\ wi' = 0
    /\ UNCHANGED <<wcfg, goroutines, writers, wg, received, notWorkers>>

WReturn ==
    /\ \/ wpc = "wait" /\ wcfg.op # "blur"
       \/ wpc = "wait2"
    /\ WaitOver
    /\ wpc' = "returned"
    /\ UNCHANGED <<wcfg, wi, goroutines, writers, wg, received, notWorkers>>

WorkersNext ==
    \/ WSequential \/ WStart \/ WSkip \/ WLoopEnd
    \/ (\E g \in 1..Len(goroutines) : WRun(g))
    \/ (\E g \in 1..Len(goroutines) : WDone(g))
    \/ WReceive \/ WNextPass \/ WReturn

InitWorkers ==
    WorkersInit /\ SessionIdle /\ FloodIdle /\ CompIdle /\ OnceIdle /\ EngineIdle /\ JpegIdle /\ CdfsIdle /\ VarianceIdle /\ NormalizeIdle
SpecWorkers == InitWorkers /\ [][WorkersNext]_vars

----------------------------------------------------------------------------
(* The lookup tables of SepiaTone: concurrent calls, each of which goes    *)
(* through initSepiaLUTs (sepiaLUTOnce.Do) before it reads the tables.     *)
(* Once.Do loads done; if it is 0 it locks the mutex, loads done again,    *)
(* runs the function if it is still 0, stores 1 and unlocks.               *)

MaxCallers == 3  \* concurrent SepiaTone calls
MaxLut == 2      \* entries of each table

Callers == 1..MaxCallers

OnceInit ==
    /\ sepiaLUTOnce = [done |-> 0, m |-> 0]
    /\ lutWrites = [i \in 0..(MaxLut - 1) |-> 0]
    /\ sepiaCalls = [p \in Callers |-> [pc |-> "enter", i |-> 0, path |-> "", early |-> FALSE]]

\* "if percentage <= 0 { return src }": the call never comes to the tables
SepiaNoOp(p) ==
    /\ sepiaCalls[p].pc = "enter"
    /\ sepiaCalls' = [sepiaCalls EXCEPT ![p].pc = "returned", ![p].path = "noop"]
    /\ UNCHANGED <<sepiaLUTOnce, lutWrites, notOnce>>

\* initSepiaLUTs(): the fast path of Do, "if o.done.Load() == 0"
OnceLoad(p) ==
    /\ sepiaCalls[p].pc = "enter"
    /\ sepiaCalls' = IF sepiaLUTOnce.done = 0
                     THEN [sepiaCalls EXCEPT ![p].pc = "lock"]
                     ELSE [sepiaCalls EXCEPT ![p].pc = "read", ![p].path = "fast"]
    /\ UNCHANGED <<sepiaLUTOnce, lutWrites, notOnce>>

\* a slip: the slow path runs the function without looking at done again
OnceLock_NoRecheck(p) ==
    /\ sepiaCalls[p].pc = "lock"
    /\ sepiaLUTOnce.m = 0
    /\ sepiaLUTOnce' = [sepiaLUTOnce EXCEPT !.m = p]
    /\ sepiaCalls' = [sepiaCalls EXCEPT ![p].pc = "init", ![p].path = "init"]
    /\ UNCHANGED <<lutWrites, notOnce>>

\* doSlow: o.m.Lock(); "if o.done.Load() == 0" under the mutex
OnceLock(p) ==
    /\ sepiaCalls[p].pc = "lock"
    /\ sepiaLUTOnce.m = 0
    /\ sepiaLUTOnce' = [sepiaLUTOnce EXCEPT !.m = p]
    /\ sepiaCalls' = IF sepiaLUTOnce.done = 0
                     THEN [sepiaCalls EXCEPT ![p].pc = "init", ![p].path = "init"]
                     ELSE [sepiaCalls EXCEPT ![p].pc = "unlock", ![p].path = "waited"]
    /\ UNCHANGED <<lutWrites, notOnce>>

\* one turn of "for i := 0; i < 256; i++": entry i of both tables is written
LutFill(p) ==
    /\ sepiaCalls[p].pc = "init"
    /\ sepiaCalls[p].i < MaxLut
    /\ lutWrites' = [lutWrites EXCEPT ![sepiaCalls[p].i] = @ + 1]
    /\ sepiaCalls' = [sepiaCalls EXCEPT ![p].i = @ + 1]
    /\ UNCHANGED <<sepiaLUTOnce, notOnce>>

\* the function has returned: the deferred o.done.Store(1)
OnceStore(p) ==
    /\ sepiaCalls[p].pc = "init"
    /\ sepiaCalls[p].i = MaxLut
    /\ sepiaLUTOnce' = [sepiaLUTOnce EXCEPT !.done = 1]
    /\ sepiaCalls' = [sepiaCalls EXCEPT ![p].pc = "unlock"]
    /\ UNCHANGED <<lutWrites, notOnce>>

\* the deferred o.m.Unlock(); Do returns
OnceUnlock(p) ==
    /\ sepiaCalls[p].pc = "unlock"
    /\ sepiaLUTOnce' = [sepiaLUTOnce EXCEPT !.m = 0]
    /\ sepiaCalls' = [sepiaCalls EXCEPT ![p].pc = "read"]
    /\ UNCHANGED <<lutWrites, notOnce>>

\* srgb8ToLinearLUT(c) / linearToSrgbApprox(v): the call reads an entry;
\* early records a read of an entry no initialisation had written yet, or
\* of a table whose initialisation was still under way
LutRead(p) ==
    /\ sepiaCalls[p].pc = "read"
    /\ \E j \in DOMAIN lutWrites :
          sepiaCalls' = [sepiaCalls EXCEPT ![p].early =
                            \/ @
                            \/ lutWrites[j] = 0
                            \/ \E q \in Callers : sepiaCalls[q].pc = "init"]
    /\ UNCHANGED <<sepiaLUTOnce, lutWrites, notOnce>>

\* "return out"
SepiaReturn(p) ==
    /\ sepiaCalls[p].pc = "read"
    /\ sepiaCalls' = [sepiaCalls EXCEPT ![p].pc = "returned"]
    /\ UNCHANGED <<sepiaLUTOnce, lutWrites, notOnce>>

OnceNext ==
    \E p \in Callers :
        \/ SepiaNoOp(p) \/ OnceLoad(p) \/ OnceLock(p) \/ LutFill(p) \/ OnceStore(p)
        \/ OnceUnlock(p) \/ LutRead(p) \/ SepiaReturn(p)

InitOnce ==
    OnceInit /\ SessionIdle /\ FloodIdle /\ CompIdle /\ WorkersIdle /\ EngineIdle /\ JpegIdle /\ CdfsIdle /\ VarianceIdle /\ NormalizeIdle
SpecOnce == InitOnce /\ [][OnceNext]_vars

----------------------------------------------------------------------------
(* AutoOrient and the flips and rotations it is made of.  Each loops over  *)
(* x in 0..w-1, y in 0..h-1 and copies the pixel at src.PixOffset(x, y) to *)
(* the place D(x, y) of the buffer it allocated.                           *)

CopyPixels(src, out, D(_, _)) ==
    LET iter == {<<x, y>> : x \in 0..(Dx(src.rect) - 1), y \in 0..(Dy(src.rect) - 1)}
    IN IF \E p \in iter : \/ ~InPix(src, PixOffset(src, p[1], p[2]))
                          \/ ~InPix(out, D(p[1], p[2]))
       THEN Panic
       ELSE Ok([rect |-> out.rect,
                pix |-> [k \in 1..Len(out.pix) |->
                    IF \E p \in iter : D(p[1], p[2]) = k - 1
                    THEN LET p == CHOOSE q \in iter : D(q[1], q[2]) = k - 1
                         IN PixAt(src, PixOffset(src, p[1], p[2]))
                    ELSE Transparent]])

FlipNRGBA(src) ==
    LET out == NewNRGBA(src.rect)
    IN CopyPixels(src, out, LAMBDA x, y : PixOffset(out, x, Dy(src.rect) - 1 - y))

FlopNRGBA(src) ==
    LET out == NewNRGBA(src.rect)
    IN CopyPixels(src, out, LAMBDA x, y : PixOffset(out, Dx(src.rect) - 1 - x, y))

Rotate180NRGBA(src) ==
    LET out == NewNRGBA(src.rect)
    IN CopyPixels(src, out,
           LAMBDA x, y : PixOffset(out, Dx(src.rect) - 1 - x, Dy(src.rect) - 1 - y))

Rotate90CWNRGBA(src) ==
    LET out == NewNRGBA(Rect(0, 0, Dy(src.rect), Dx(src.rect)))
    IN CopyPixels(src, out, LAMBDA x, y : PixOffset(out, Dy(src.rect) - 1 - y, x))

\* a slip: the counter-clockwise rotation indexes as the clockwise one does
Rotate90CCWNRGBA_Clockwise(src) ==
    LET out == NewNRGBA(Rect(0, 0, Dy(src.rect), Dx(src.rect)))
    IN CopyPixels(src, out, LAMBDA x, y : PixOffset(out, Dy(src.rect) - 1 - y, x))

Rotate90CCWNRGBA(src) ==
    LET out == NewNRGBA(Rect(0, 0, Dy(src.rect), Dx(src.rect)))
    IN CopyPixels(src, out, LAMBDA x, y : PixOffset(out, y, Dx(src.rect) - 1 - x))

\* a slip of copy and paste: case 7 rotates clockwise, as case 5 does
AutoOrient_TransverseAsTranspose(heap, img, orientation) ==
    IF orientation <= 1 \/ orientation > 8
    THEN [out |-> img, err |-> FALSE, panic |-> FALSE, heap |-> heap]
    ELSE LET t == ToNRGBA(heap, img)
             src == Deref(t.heap, t.ref)
             flopped(tmp) == IF tmp.panic THEN Panic ELSE FlopNRGBA(tmp.img)
         IN Fresh(t.heap,
                  CASE orientation = 2 -> FlopNRGBA(src)
                    [] orientation = 3 -> Rotate180NRGBA(src)
                    [] orientation = 4 -> FlipNRGBA(src)
                    [] orientation = 5 -> flopped(Rotate90CWNRGBA(src))
                    [] orientation = 6 -> Rotate90CWNRGBA(src)
                    [] orientation = 7 -> flopped(Rotate90CWNRGBA(src))
                    [] orientation = 8 -> Rotate90CCWNRGBA(src))

\* AutoOrient(img, orientation): [out, err, panic, heap]; orientation 1 and
\* the codes outside 1..8 return img itself, the others convert img (a copy)
\* and return the buffer the transform allocated
AutoOrient(heap, img, orientation) ==
    IF orientation <= 1 \/ orientation > 8
    THEN [out |-> img, err |-> FALSE, panic |-> FALSE, heap |-> heap]
    ELSE LET t == ToNRGBA(heap, img)
             src == Deref(t.heap, t.ref)
             flopped(tmp) == IF tmp.panic THEN Panic ELSE FlopNRGBA(tmp.img)
         IN Fresh(t.heap,
                  CASE orientation = 2 -> FlopNRGBA(src)
                    [] orientation = 3 -> Rotate180NRGBA(src)
                    [] orientation = 4 -> FlipNRGBA(src)
                    [] orientation = 5 -> flopped(Rotate90CWNRGBA(src))
                    [] orientation = 6 -> Rotate90CWNRGBA(src)
                    [] orientation = 7 -> flopped(Rotate90CCWNRGBA(src))
                    [] orientation = 8 -> Rotate90CCWNRGBA(src))

----------------------------------------------------------------------------
(* The engine's functions, called directly.  The caller's buffer is the    *)
(* store "img" of a heap; a call is recorded with the buffer as it was     *)
(* handed in, its store as the call left it, the buffer that came back,    *)
(* and whether that is the very buffer that was handed in.  AutoOrient may *)
(* be applied again to what it returned.                                   *)

MaxCalls == 2    \* AutoOrient calls in a row
MaxSide == 3     \* longest side of an image with an impulse
MaxRadius == 2   \* widest window radius of MedianFilter

\* w x h pixels of value v, opaque, but for pixel k
Impulse(w, h, k, v, c) ==
    [rect |-> Rect(0, 0, w, h),
     pix |-> [i \in 1..(w * h) |-> IF i = k THEN <<c, c, c, 0>> ELSE <<v, v, v, 255>>]]

ImpulseImages ==
    {Impulse(w, w, k, vc[1], vc[2]) :
        w \in 3..MaxSide, k \in 1..(MaxSide * MaxSide),
        vc \in {<<128, 0>>, <<128, 255>>}}

\* the buffers LoadImage decodes and hands to AutoOrient
LoadedImages == {Ramp(MaxW, MaxH), Ramp(MaxH, MaxW), Banded(MaxW, MaxH), Ramp(MaxW, 0)}

\* opaque pixels from black to white: two of middle lightness, and the
\* pixel of TestSepiaToneFull
Tones == [rect |-> Rect(0, 0, 3, 2),
          pix |-> <<Black, <<119, 119, 119, 255>>, White,
                    Blue, <<0, 107, 253, 255>>, <<120, 200, 80, 255>>>>]

\* the buffers the functions are called on
EngineImages == LoadedImages \cup ImpulseImages \cup {Tones}

EngineInit ==
    /\ ebuf \in {AsImage(d) : d \in EngineImages}
    /\ ecalls = <<>>

EHeap == [b \in BufIds |-> IF b = "img" THEN ebuf.pix ELSE <<>>]
EArg == [rect |-> ebuf.rect, buf |-> "img"]
ESrc == [rect |-> ebuf.rect, pix |-> ebuf.pix]

\* the call returns res = [out, err, panic, heap]; hist is what came back
\* beside the buffer
Returns(op, params, res, hist) ==
    \E newImg \in {IF res.panic \/ res.out.buf = "nil" THEN NilImage
                    ELSE AsImage(Deref(res.heap, res.out))} :
        /\ ecalls' = Append(ecalls,
                        [op |-> op, params |-> params, arg |-> ebuf,
                         argAfter |-> res.heap["img"], panic |-> res.panic,
                         err |-> res.err,
                         same |-> res.out.buf = "img", out |-> newImg, hist |-> hist])
        /\ ebuf' = IF newImg.nil THEN ebuf ELSE newImg
        /\ UNCHANGED notEngine

\* a decoded buffer, or the buffer of the tones: the impulse images are for
\* the filters that look at a neighbourhood
PlainBuffer == ebuf \in {AsImage(d) : d \in LoadedImages \cup {Tones}}

\* img = stdimg.AutoOrient(img, orientation), on a decoded buffer or on what
\* AutoOrient returned
CallAutoOrient ==
    /\ Len(ecalls) < MaxCalls
    /\ \A i \in 1..Len(ecalls) : ecalls[i].op = "AutoOrient" /\ ~ecalls[i].panic
    /\ ecalls = <<>> => ebuf \in {AsImage(d) : d \in LoadedImages}
    /\ \E orientation \in 0..9 :
          \E res \in {AutoOrient(EHeap, EArg, orientation)} :
              Returns("AutoOrient", <<orientation>>, res, <<>>)

CallMedianFilter ==
    /\ ecalls = <<>>
    /\ \E radius \in -1..MaxRadius :
          \E res \in {Fresh(EHeap, MedianFilter(ESrc, radius))} :
              Returns("MedianFilter", <<radius>>, res, <<>>)

\* blackPoint, gamma, whitePoint
LevelParams == {<<0, 1, 255>>, <<0, 0, 128>>, <<128, 1, 128>>, <<200, 1, 100>>}

CallLevel ==
    /\ ecalls = <<>>
    /\ PlainBuffer
    /\ \E p \in LevelParams :
          \E res \in {Fresh(EHeap, Level(ESrc, p[1], p[2], p[3]))} :
              Returns("Level", p, res, <<>>)

\* what the generator adds to the colours of a pixel
NoiseDraws == {<<1, 1, 1>>, <<-1, 0, 1>>}

CallAddNoise ==
    /\ ecalls = <<>>
    /\ PlainBuffer
    /\ \E amount \in -1..1, n \in NoiseDraws :
          \E res \in {Fresh(EHeap, AddNoise(ESrc, amount, [k \in 1..Len(ebuf.pix) |-> n]))} :
              Returns("AddNoise", <<amount>>, res, <<>>)

HistogramBins == {1, 2, 3, 256}

CallComputeHistogram ==
    /\ ecalls = <<>>
    /\ PlainBuffer
    /\ \E bins \in HistogramBins \cup {-1, 0} :
          \E hist \in {ComputeHistogram(ESrc, bins)} :
              Returns("ComputeHistogram", <<bins>>,
                      [out |-> NilRef, err |-> FALSE, panic |-> hist.panic, heap |-> EHeap],
                      hist)

\* the buffers whose colour values the table of the vignette has
VignetteKnown == \A k \in 1..Len(ebuf.pix) : \A c \in 1..3 :
                     <<ebuf.pix[k][c], 1>> \in DOMAIN VignetteChannel

CallVignette ==
    /\ ecalls = <<>>
    /\ PlainBuffer
    /\ VignetteKnown
    /\ \E radius \in 1..2, cx \in 0..1, cy \in 0..1, strength \in {0, 50, 100} :
          \E res \in {Fresh(EHeap, Vignette(ESrc, radius, 1, cx, cy, strength))} :
              Returns("Vignette", <<radius, cx, cy, strength>>, res, <<>>)

\* the target of the toning, #704214
SepiaBrown == <<112, 66, 20>>
\* curve as handed to SepiaTone, in hundredths
SepiaCurves == {0, SepiaDefaultCurve, 100}

CallSepiaTone ==
    /\ ecalls = <<>>
    /\ PlainBuffer
    /\ \E percentage \in {-1, 0, 50, 100, 200}, curve \in SepiaCurves :
          \E res \in {SepiaTone(EHeap, EArg, percentage, curve)} :
              Returns("SepiaTone", <<percentage, curve>>, res, <<>>)

CallComposite ==
    /\ ecalls = <<>>
    /\ PlainBuffer
    /\ \E src \in CompSrcs, op \in {"over", "multiply", "nosuchop"},
             xoff \in {-1, 0, MaxW}, yoff \in {0, 1} :
          \E res \in {InPlace(EHeap, EArg, Composite(ESrc, src, op, xoff, yoff))} :
              Returns("Composite", <<op, xoff, yoff>>, res, <<>>)

\* the buffers whose colours the table of Lab distances has
LabKnown == \A k \in 1..Len(ebuf.pix) :
                <<RGB(ebuf.pix[k]), RGB(ebuf.pix[k])>> \in DOMAIN LabDistSqCeil

CallFloodfillPaint ==
    /\ ecalls = <<>>
    /\ PlainBuffer
    /\ LabKnown
    /\ \E fuzz \in {0, 100}, x \in -1..1, invert \in BOOLEAN :
          \E res \in {Fresh(EHeap, FloodfillPaint(ESrc, Blue, fuzz, Transparent, x, 0, invert))} :
              Returns("FloodfillPaint", <<fuzz, x, invert>>, res, <<>>)

\* the commands handed to the dispatcher
EngineCommands ==
    {<<"resize", <<"2", "1">>>>, <<"crop", <<"1", "1", "0", "0">>>>,
     <<"flip", <<>>>>, <<"flop", <<>>>>, <<"trim", <<"0">>>>, <<"strip", <<>>>>,
     <<"composite", <<"a.png", "over", "0", "0">>>>,
     <<"floodfillPaint", <<"#0000ff", "0", "", "0", "0">>>>,
     <<"medianFilter", <<"1">>>>, <<"medianFilter", <<"0">>>>, <<"medianFilter", <<"x">>>>,
     <<"level", <<"0", "1", "50">>>>, <<"level", <<"5", "1", "5">>>>,
     <<"adaptiveResize", <<>>>>, <<"adaptiveResize", <<"2", "1">>>>,
     <<"adaptiveResize", <<"2">>>>, <<"adaptiveResize", <<"x", "-1">>>>,
     <<"histogram", <<>>>>, <<"histogram", <<"2">>>>, <<"identify", <<>>>>,
     <<"sepia", <<>>>>, <<"sepia", <<"0">>>>, <<"sepia", <<"0%">>>>, <<"sepia", <<"-1">>>>,
     <<"sepia", <<"0", "", "", "", "", "1">>>>, <<"sepia", <<"0%", "", "", "", "", "0">>>>,
     <<"sepia", <<"50%">>>>, <<"sepia", <<"50">>>>, <<"sepia", <<"1">>>>,
     <<"sepia", <<"1", "", "", "", "", "x">>>>, <<"sepia", <<"x">>>>, <<"sepia", <<"x%">>>>,
     <<"vignette", <<"2", "1", "0", "0">>>>, <<"vignette", <<"2", "1", "1", "0", "0">>>>,
     <<"vignette", <<"1", "1", "1", "1", "0%">>>>, <<"vignette", <<"2", "1", "0", "0", "50%">>>>,
     <<"vignette", <<"2", "1", "0">>>>, <<"vignette", <<"2", "1", "0", "0", "x">>>>}

\* out, err := ApplyCommandStdlib(img, commandName, args)
CallCommand ==
    /\ ecalls = <<>>
    /\ PlainBuffer
    /\ \E c \in {d \in EngineCommands : (d[1] = "floodfillPaint" => LabKnown)
                                       /\ (d[1] = "vignette" => VignetteKnown)} :
          \E res \in {ApplyCommandStdlib(ESrc, c[1], c[2])} :
              Returns(c[1], c[2], res, <<>>)

EngineNext ==
    \/ CallAutoOrient
    \/ CallMedianFilter
    \/ CallLevel
    \/ CallAddNoise
    \/ CallComputeHistogram
    \/ CallSepiaTone
    \/ CallVignette
    \/ CallComposite
    \/ CallFloodfillPaint
    \/ CallCommand

InitEngine ==
    EngineInit /\ SessionIdle /\ FloodIdle /\ CompIdle /\ WorkersIdle /\ OnceIdle /\ JpegIdle /\ CdfsIdle /\ VarianceIdle /\ NormalizeIdle
SpecEngine == InitEngine /\ [][EngineNext]_vars

----------------------------------------------------------------------------
(* JPEG metadata: LoadImage reads the file, takes the EXIF orientation and *)
(* the APPn segments and turns the pixels upright; SaveImage encodes the   *)
(* image and puts the segments back behind the SOI marker.  A file is its  *)
(* bytes; offsets count from 0 as in the code.                             *)

ByteAt(data, i) == data[i + 1]
Slice(data, from, to) == SubSeq(data, from + 1, to)

\* binary.ByteOrder.Uint16 / Uint32 at offset i
Uint16(order, data, i) ==
    IF order = "MM" THEN ByteAt(data, i) * 256 + ByteAt(data, i + 1)
    ELSE ByteAt(data, i + 1) * 256 + ByteAt(data, i)
Uint32(order, data, i) ==
    IF order = "MM" THEN Uint16(order, data, i) * 65536 + Uint16(order, data, i + 2)
    ELSE Uint16(order, data, i + 2) * 65536 + Uint16(order, data, i)

ExifHeader == <<69, 120, 105, 102, 0, 0>>   \* "Exif\x00\x00"
HasExifHeader(data, i) == i + 6 <= Len(data) /\ Slice(data, i, i + 6) = ExifHeader

\* the loop of parseJPEGAppSegments from offset i on
RECURSIVE ParseScan(_, _, _)
ParseScan(data, i, segs) ==
    IF i + 4 > Len(data) THEN [err |-> FALSE, segs |-> segs]
    ELSE IF ByteAt(data, i) # 255 THEN ParseScan(data, i + 1, segs)
    ELSE LET marker == ByteAt(data, i + 1)
             segLen == ByteAt(data, i + 2) * 256 + ByteAt(data, i + 3)
             payloadLen == segLen - 2
             app == marker >= 224 /\ marker <= 239
         IN IF marker = 218 THEN [err |-> FALSE, segs |-> segs]
            ELSE IF app /\ (payloadLen < 0 \/ i + 4 + payloadLen > Len(data))
            THEN [err |-> TRUE, segs |-> <<>>]
            ELSE ParseScan(data, IF segLen <= 2 THEN i + 2 ELSE i + 2 + segLen,
                           IF app THEN Append(segs,
                                          [Marker |-> marker,
                                           Payload |-> Slice(data, i + 4, i + 4 + payloadLen)])
                           ELSE segs)

\* parseJPEGAppSegments(data): the APPn segments in the order of the file
parseJPEGAppSegments(data) ==
    IF Len(data) < 4 \/ ByteAt(data, 0) # 255 \/ ByteAt(data, 1) # 216
    THEN [err |-> TRUE, segs |-> <<>>]
    ELSE ParseScan(data, 2, <<>>)

\* parseTIFFStartFromJPEG(data): the offset of the TIFF header of the first
\* APP1 segment that starts with the EXIF header, or -1
RECURSIVE TiffScan(_, _)
TiffScan(data, i) ==
    IF ~(i + 4 < Len(data)) THEN -1
    ELSE IF ByteAt(data, i) # 255 THEN TiffScan(data, i + 1)
    ELSE LET marker == ByteAt(data, i + 1)
             segLen == ByteAt(data, i + 2) * 256 + ByteAt(data, i + 3)
         IN IF marker = 218 THEN -1
            ELSE IF marker = 225 /\ segLen >= 8 /\ HasExifHeader(data, i + 4) THEN i + 10
            ELSE TiffScan(data, IF segLen <= 2 THEN i + 2 ELSE i + 2 + segLen)

parseTIFFStartFromJPEG(data) == IF Len(data) < 4 THEN -1 ELSE TiffScan(data, 2)

\* the byte order the TIFF header names, or "" for none
TiffOrder(data, tiffStart) ==
    IF ByteAt(data, tiffStart) = 77 /\ ByteAt(data, tiffStart + 1) = 77 THEN "MM"
    ELSE IF ByteAt(data, tiffStart) = 73 /\ ByteAt(data, tiffStart + 1) = 73 THEN "II"
    ELSE ""

OrientationTag == 274   \* 0x0112
ExifIFDTag == 34665     \* 0x8769
GPSIFDTag == 34853      \* 0x8825

\* readIFD of readEXIFTags, for entries of type BYTE, SHORT and LONG: st is
\* [res, visited], res the map from <<ifdType, tag>> to the values read.  An
\* entry of the same key read later replaces the earlier one; the IFD the
\* next-IFD offset leads to is read under the same ifdType
RECURSIVE ReadIFD(_, _, _, _, _, _)
RECURSIVE ReadEntries(_, _, _, _, _, _, _, _)
ReadEntries(data, tiffStart, order, entriesBase, e, nEntries, ifdType, st) ==
    LET ent == entriesBase + e * 12
        tag == Uint16(order, data, ent)
        typ == Uint16(order, data, ent + 2)
        count == Uint32(order, data, ent + 4)
        off32 == Uint32(order, data, ent + 8)
        sizePer == CASE typ \in {1, 2} -> 1 [] typ = 3 -> 2 [] typ = 4 -> 4
                     [] typ = 5 -> 8 [] OTHER -> 0
        totalSize == count * sizePer
        pointer == tag \in {ExifIFDTag, GPSIFDTag}
        follow == off32 > 0 /\ tiffStart + off32 < Len(data)
        inline == totalSize <= 4
        base == IF inline THEN ent + 8 ELSE tiffStart + off32
        vals == [i \in 1..count |->
                    IF typ = 1 THEN ByteAt(data, base + i - 1)
                    ELSE IF typ = 3 THEN Uint16(order, data, base + (i - 1) * 2)
                    ELSE Uint32(order, data, base + (i - 1) * 4)]
        next(s) == ReadEntries(data, tiffStart, order, entriesBase, e + 1, nEntries, ifdType, s)
    IN IF e >= nEntries \/ ent + 12 > Len(data) THEN st
       ELSE IF pointer
            THEN IF (sizePer = 0 \/ inline \/ tiffStart + off32 + totalSize <= Len(data))
                    /\ follow
                 THEN next(ReadIFD(data, tiffStart, order, off32,
                                   IF tag = ExifIFDTag THEN 1 ELSE 2, st))
                 ELSE next(st)
       ELSE IF sizePer = 0 THEN next(st)
       ELSE IF ~inline /\ tiffStart + off32 + totalSize > Len(data) THEN next(st)
       ELSE IF typ \in {1, 3, 4} /\ count > 0
            THEN next([st EXCEPT !.res = [k \in DOMAIN st.res \cup {<<ifdType, tag>>} |->
                                            IF k = <<ifdType, tag>> THEN vals ELSE st.res[k]]])
       ELSE next(st)

ReadIFD(data, tiffStart, order, ifdOffset, ifdType, st) ==
    LET absIfd == tiffStart + ifdOffset
        nEntries == Uint16(order, data, absIfd)
        entriesBase == absIfd + 2
        lastEnt == entriesBase + nEntries * 12
        read == ReadEntries(data, tiffStart, order, entriesBase, 0, nEntries, ifdType,
                            [st EXCEPT !.visited = @ \cup {absIfd}])
        nextOff == Uint32(order, data, lastEnt)
    IN IF absIfd + 2 > Len(data) \/ absIfd \in st.visited THEN st
       ELSE IF lastEnt + 4 <= Len(data) /\ nextOff > 0 /\ tiffStart + nextOff < Len(data)
       THEN ReadIFD(data, tiffStart, order, nextOff, ifdType, read)
       ELSE read

\* readEXIFTags(data, tiffStart): [err, res]
readEXIFTags(data, tiffStart) ==
    LET order == TiffOrder(data, tiffStart)
        off == Uint32(order, data, tiffStart + 4)
        none == [res |-> <<>>, visited |-> {}]
    IN IF tiffStart + 8 > Len(data) \/ order = "" THEN [err |-> TRUE, res |-> <<>>]
       ELSE IF Uint16(order, data, tiffStart + 2) # 42 THEN [err |-> TRUE, res |-> <<>>]
       ELSE IF off <= 0 \/ tiffStart + off >= Len(data) THEN [err |-> FALSE, res |-> <<>>]
       ELSE [err |-> FALSE, res |-> ReadIFD(data, tiffStart, order, off, 0, none).res]

\* extractJPEGOrientation(data): the values it may return (the map of tags is
\* ranged over in no fixed order, and the first orientation tag whose value
\* is one number is returned); the empty set when it returns an error
extractJPEGOrientation(data) ==
    LET tiffStart == parseTIFFStartFromJPEG(data)
        tags == readEXIFTags(data, tiffStart)
    IN IF tiffStart < 0 THEN {}
       ELSE IF tags.err THEN {}
       ELSE {tags.res[k][1] : k \in {q \in DOMAIN tags.res :
                                        q[2] = OrientationTag /\ Len(tags.res[q]) = 1}}

\* the loop of setEXIFOrientationToOne over the entries of IFD0
RECURSIVE SetScan(_, _, _, _, _)
SetScan(app1, order, entriesBase, e, nEntries) ==
    LET ent == entriesBase + e * 12
        one == IF order = "MM" THEN <<0, 1, 0, 0>> ELSE <<1, 0, 0, 0>>
    IN IF e >= nEntries \/ ent + 12 > Len(app1) THEN app1
       ELSE IF Uint16(order, app1, ent) = OrientationTag
       THEN [k \in 1..Len(app1) |->
                IF k - 1 >= ent + 8 /\ k - 1 < ent + 12 THEN one[k - ent - 8] ELSE app1[k]]
       ELSE SetScan(app1, order, entriesBase, e + 1, nEntries)

\* setEXIFOrientationToOne(app1): [err, payload]
setEXIFOrientationToOne(app1) ==
    LET tiffStart == 6
        order == TiffOrder(app1, tiffStart)
        off == Uint32(order, app1, tiffStart + 4)
        absIfd == tiffStart + off
        fail == [err |-> TRUE, payload |-> app1]
    IN IF Len(app1) < 8 \/ ~HasExifHeader(app1, 0) THEN fail
       ELSE IF tiffStart + 8 > Len(app1) \/ order = "" THEN fail
       ELSE IF Uint16(order, app1, tiffStart + 2) # 42 THEN fail
       ELSE IF off <= 0 \/ tiffStart + off >= Len(app1) THEN fail
       ELSE IF absIfd + 2 > Len(app1) THEN fail
       ELSE [err |-> FALSE,
             payload |-> SetScan(app1, order, absIfd + 2, 0, Uint16(order, app1, absIfd))]

\* one segment as insertAppSegmentsIntoJPEG writes it
RECURSIVE SegmentBytes(_)
SegmentBytes(segments) ==
    IF segments = <<>> THEN <<>>
    ELSE LET s == Head(segments)
             ln == Len(s.Payload) + 2
         IN <<255, s.Marker, ln \div 256, ln % 256>> \o s.Payload \o SegmentBytes(Tail(segments))

\* insertAppSegmentsIntoJPEG(jpegBytes, segments): [err, bytes]
insertAppSegmentsIntoJPEG(jpegBytes, segments) ==
    IF Len(jpegBytes) < 2 \/ ByteAt(jpegBytes, 0) # 255 \/ ByteAt(jpegBytes, 1) # 216
    THEN [err |-> TRUE, bytes |-> <<>>]
    ELSE IF \E k \in 1..Len(segments) : Len(segments[k].Payload) + 2 > 65535
    THEN [err |-> TRUE, bytes |-> <<>>]
    ELSE [err |-> FALSE,
          bytes |-> Slice(jpegBytes, 0, 2) \o SegmentBytes(segments)
                    \o Slice(jpegBytes, 2, Len(jpegBytes))]

\* what jpeg.Encode writes (image/jpeg of the standard library): SOI, the
\* tables, the frame and the scan, and no APPn segment
EncodedJPEG == <<255, 216, 255, 219, 0, 3, 16, 255, 192, 0, 3, 8,
                 255, 218, 0, 2, 42, 255, 217>>

\* LoadImage(path) for the bytes b of a JPEG that decodes: the orientation
\* is the one read when it is 1..8, else 1; the segments are kept when they
\* parse; the image is turned when the orientation is not 1
LoadImage(b, o) ==
    LET orientation == IF o >= 1 /\ o <= 8 THEN o ELSE 1
        segs == parseJPEGAppSegments(b)
    IN [appSegments |-> IF ~segs.err THEN segs.segs ELSE <<>>,
        orientation |-> orientation,
        autoOriented |-> orientation # 1]

\* SaveImage(path, img, appSegments, autoOriented) for a .jpg path: the
\* bytes written
SaveImage(appSegments, autoOriented) ==
    LET fixed == [i \in 1..Len(appSegments) |->
                    LET s == appSegments[i]
                        mod == setEXIFOrientationToOne(s.Payload)
                    IN IF autoOriented /\ s.Marker = 225 /\ Len(s.Payload) >= 6
                          /\ HasExifHeader(s.Payload, 0) /\ ~mod.err
                       THEN [Marker |-> s.Marker, Payload |-> mod.payload]
                       ELSE s]
    IN IF Len(appSegments) > 0
       THEN insertAppSegmentsIntoJPEG(EncodedJPEG, fixed).bytes
       ELSE EncodedJPEG

\* the files of the runs
Put16(order, v) == IF order = "MM" THEN <<v \div 256, v % 256>> ELSE <<v % 256, v \div 256>>
Put32(order, v) == IF order = "MM" THEN Put16(order, v \div 65536) \o Put16(order, v % 65536)
                   ELSE Put16(order, v % 65536) \o Put16(order, v \div 65536)
\* an IFD entry of one SHORT, and of one LONG
ShortEntry(order, tag, v) ==
    Put16(order, tag) \o Put16(order, 3) \o Put32(order, 1) \o Put16(order, v) \o <<0, 0>>
LongEntry(order, tag, v) ==
    Put16(order, tag) \o Put16(order, 4) \o Put32(order, 1) \o Put32(order, v)
TiffHeader(order) ==
    (IF order = "MM" THEN <<77, 77>> ELSE <<73, 73>>) \o Put16(order, 42) \o Put32(order, 8)
\* the orientation o in IFD0
ExifPlain(order, o) ==
    ExifHeader \o TiffHeader(order) \o Put16(order, 1)
    \o ShortEntry(order, OrientationTag, o) \o Put32(order, 0)
\* the orientation o in IFD0 and o2 in the IFD of the thumbnail that follows
ExifWithThumbnail(order, o, o2) ==
    ExifHeader \o TiffHeader(order) \o Put16(order, 1)
    \o ShortEntry(order, OrientationTag, o) \o Put32(order, 26)
    \o Put16(order, 1) \o ShortEntry(order, OrientationTag, o2) \o Put32(order, 0)
\* the image width in IFD0, the orientation in the Exif IFD it points to
ExifInSubIFD(order, o) ==
    ExifHeader \o TiffHeader(order) \o Put16(order, 2)
    \o ShortEntry(order, 256, 16) \o LongEntry(order, ExifIFDTag, 38) \o Put32(order, 0)
    \o Put16(order, 1) \o ShortEntry(order, OrientationTag, o) \o Put32(order, 0)

Segment(marker, payload) ==
    <<255, marker, (Len(payload) + 2) \div 256, (Len(payload) + 2) % 256>> \o payload

MaxOrientation == 9   \* orientation values 0..MaxOrientation are written
ExifPayloads ==
    {ExifPlain(order, o) : order \in {"II", "MM"}, o \in 0..MaxOrientation}
    \cup {ExifWithThumbnail(order, o[1], o[2]) :
             order \in {"II", "MM"}, o \in {<<1, 1>>, <<6, 6>>, <<6, 1>>, <<1, 6>>}}
    \cup {ExifInSubIFD(order, o) : order \in {"II", "MM"}, o \in {1, 8}}

\* JFIF, a table, EXIF; then an APP2 whose payload has marker bytes in it
\* and an empty APP13
JpegFiles ==
    {<<255, 216>> \o Segment(224, <<74, 70, 0>>) \o Segment(219, <<16>>)
       \o Segment(225, x) \o tail \o Slice(EncodedJPEG, 6, Len(EncodedJPEG)) :
          x \in ExifPayloads,
          tail \in {<<>>, Segment(226, <<88, 255, 218, 7>>) \o Segment(237, <<>>)}}
    \cup {EncodedJPEG,
          <<255, 216>> \o Segment(224, <<74, 70, 0>>) \o Slice(EncodedJPEG, 2, Len(EncodedJPEG))}

JpegInit ==
    /\ jfile \in JpegFiles
    /\ jloaded = [appSegments |-> <<>>, orientation |-> 1, autoOriented |-> FALSE]
    /\ jout = <<>>
    /\ jpc = "start"

\* img, _, segs, autoOriented, err := LoadImage(path)
JLoadImage ==
    /\ jpc = "start"
    /\ \E o \in (IF extractJPEGOrientation(jfile) = {} THEN {0}
                 ELSE extractJPEGOrientation(jfile)) :
          jloaded' = LoadImage(jfile, o)
    /\ jpc' = "loaded"
    /\ UNCHANGED <<jfile, jout>>
    /\ UNCHANGED notJpeg

\* SaveImage(out, img, segs, autoOriented)
JSaveImage ==
    /\ jpc = "loaded"
    /\ jout' = SaveImage(jloaded.appSegments, jloaded.autoOriented)
    /\ jpc' = "saved"
    /\ UNCHANGED <<jfile, jloaded>>
    /\ UNCHANGED notJpeg

JpegNext == JLoadImage \/ JSaveImage
InitJpeg ==
    JpegInit /\ SessionIdle /\ FloodIdle /\ CompIdle /\ WorkersIdle /\ OnceIdle /\ EngineIdle /\ CdfsIdle /\ VarianceIdle /\ NormalizeIdle
SpecJpeg == InitJpeg /\ [][JpegNext]_vars

----------------------------------------------------------------------------
(* buildPoissonCDFs: the caller starts the workers, puts every channel     *)
(* value on the buffered channel jobs, closes it and waits; a worker takes *)
(* values off jobs until it is closed and empty, and writes the CDF of     *)
(* each value it took.                                                     *)

MaxValues == 3   \* channel values (256 in the code)

\* make(chan int, 256): as many places as there are values
JobsCap == MaxValues

\* a slip: the wait group is set for one worker
WgInitial_One(workers) == 1

\* wg.Add(workers)
WgInitial(workers) == workers

\* what a worker writes for the value ch: the one-entry CDF when lambda <= 0,
\* else the entries from p0 on (never none)
CdfOf(ch, amount) == IF ch * amount <= 0 THEN <<"1.0">> ELSE <<"p0", "more">>

CdfsInit ==
    /\ pcfg \in [workers : 1..MaxCPU, amount : {1}]
    /\ pmain = [pc |-> "spawn", i |-> 0]
    /\ pq = <<>>
    /\ pclosed = FALSE
    /\ pwk = <<>>
    /\ pwgc = WgInitial(pcfg.workers)
    /\ ptaken = [ch \in 0..(MaxValues - 1) |-> <<>>]
    /\ pcdfs = [ch \in 0..(MaxValues - 1) |-> <<>>]

\* go func() { ... }()
PSpawn ==
    /\ pmain.pc = "spawn" /\ pmain.i < pcfg.workers
    /\ pwk' = Append(pwk, [st |-> "recv", ch |-> -1])
    /\ pmain' = [pmain EXCEPT !.i = @ + 1]
    /\ UNCHANGED <<pcfg, pq, pclosed, pwgc, ptaken, pcdfs, notCdfs>>

PSpawnEnd ==
    /\ pmain.pc = "spawn" /\ pmain.i = pcfg.workers
    /\ pmain' = [pc |-> "send", i |-> 0]
    /\ UNCHANGED <<pcfg, pq, pclosed, pwk, pwgc, ptaken, pcdfs, notCdfs>>

\* jobs <- ch
PSend ==
    /\ pmain.pc = "send" /\ pmain.i < MaxValues
    /\ Len(pq) < JobsCap
    /\ pq' = Append(pq, pmain.i)
    /\ pmain' = [pmain EXCEPT !.i = @ + 1]
    /\ UNCHANGED <<pcfg, pclosed, pwk, pwgc, ptaken, pcdfs, notCdfs>>

\* close(jobs)
PClose ==
    /\ pmain.pc = "send" /\ pmain.i = MaxValues
    /\ pclosed' = TRUE
    /\ pmain' = [pmain EXCEPT !.pc = "wait"]
    /\ UNCHANGED <<pcfg, pq, pwk, pwgc, ptaken, pcdfs, notCdfs>>

\* wg.Wait(); return cdfs
PReturn ==
    /\ pmain.pc = "wait" /\ pwgc = 0
    /\ pmain' = [pmain EXCEPT !.pc = "returned"]
    /\ UNCHANGED <<pcfg, pq, pclosed, pwk, pwgc, ptaken, pcdfs, notCdfs>>

\* worker w: ch := <-jobs
PRecv(w) ==
    /\ pwk[w].st = "recv" /\ pq # <<>>
    /\ pwk' = [pwk EXCEPT ![w] = [st |-> "got", ch |-> Head(pq)]]
    /\ ptaken' = [ptaken EXCEPT ![Head(pq)] = Append(@, w)]
    /\ pq' = Tail(pq)
    /\ UNCHANGED <<pcfg, pmain, pclosed, pwgc, pcdfs, notCdfs>>

\* worker w: cdfs[ch] = ...
PWrite(w) ==
    /\ pwk[w].st = "got"
    /\ pcdfs' = [pcdfs EXCEPT ![pwk[w].ch] = Append(@, CdfOf(pwk[w].ch, pcfg.amount))]
    /\ pwk' = [pwk EXCEPT ![w].st = "recv"]
    /\ UNCHANGED <<pcfg, pmain, pq, pclosed, pwgc, ptaken, notCdfs>>

\* worker w: jobs is closed and empty, the range loop ends; wg.Done()
PExit(w) ==
    /\ pwk[w].st = "recv" /\ pq = <<>> /\ pclosed
    /\ pwk' = [pwk EXCEPT ![w].st = "done"]
    /\ pwgc' = pwgc - 1
    /\ UNCHANGED <<pcfg, pmain, pq, pclosed, ptaken, pcdfs, notCdfs>>

CdfsNext ==
    \/ PSpawn \/ PSpawnEnd \/ PSend \/ PClose \/ PReturn
    \/ (\E w \in 1..Len(pwk) : PRecv(w))
    \/ (\E w \in 1..Len(pwk) : PWrite(w))
    \/ (\E w \in 1..Len(pwk) : PExit(w))

InitCdfs ==
    CdfsInit /\ SessionIdle /\ FloodIdle /\ CompIdle /\ WorkersIdle /\ OnceIdle /\ EngineIdle
             /\ JpegIdle /\ VarianceIdle /\ NormalizeIdle
SpecCdfs == InitCdfs /\ [][CdfsNext]_vars
\* the scheduler runs a goroutine that can run: while a step is possible,
\* one is taken in the end
SpecCdfsFair == SpecCdfs /\ WF_vars(CdfsNext)

----------------------------------------------------------------------------
(* AdaptiveBlurPerPixel up to the choice of a blur level for every pixel:  *)
(* the luminance image, the two integral images, the variance field and    *)
(* the index of the level.  The blurred buffers themselves are not part of *)
(* this; the blending of the rows is the workers' "adaptive" operation.    *)

\* a fifth of full luminance in the units of 2126 r + 7152 g + 722 b
LumUnit == 510000

\* 0.2126 r + 0.7152 g + 0.0722 b over 255, in fifths: exact on the greys
\* of the images below
Luminance(px) == (2126 * px[1] + 7152 * px[2] + 722 * px[3]) \div LumUnit

\* lum[y*w+x]
LumImage(src) ==
    [i \in 0..(Dx(src.rect) * Dy(src.rect) - 1) |-> Luminance(src.pix[i + 1])]

\* rowSum after the turn x of the loop over the row y
RECURSIVE RowSum(_, _, _, _)
RowSum(vals, w, y, x) ==
    IF x < 0 THEN 0 ELSE RowSum(vals, w, y, x - 1) + vals[y * w + x]

\* sum[idx] = sum[idx-(w+1)] + rowSum; the row 0 and the column 0 stay 0
Integral(vals, w, h) ==
    LET I[idx \in 0..((w + 1) * (h + 1) - 1)] ==
            IF idx \div (w + 1) = 0 \/ idx % (w + 1) = 0 THEN 0
            ELSE I[idx - (w + 1)]
                 + RowSum(vals, w, (idx \div (w + 1)) - 1, (idx % (w + 1)) - 1)
    IN I

\* rectSum and rectSumSq: the corners are clipped to the image here
rectSum(ii, w, h, x0, y0, x1, y1) ==
    LET cx0 == IF x0 < 0 THEN 0 ELSE x0
        cy0 == IF y0 < 0 THEN 0 ELSE y0
        cx1 == IF x1 >= w THEN w - 1 ELSE x1
        cy1 == IF y1 >= h THEN h - 1 ELSE y1
    IN ii[(cy1 + 1) * (w + 1) + (cx1 + 1)] - ii[cy0 * (w + 1) + (cx1 + 1)]
       - ii[(cy1 + 1) * (w + 1) + cx0] + ii[cy0 * (w + 1) + cx0]

\* r := int(math.Max(1.0, math.Floor(radius))), radius a whole number here
VarRadius(radius) == IF radius < 1 THEN 1 ELSE radius

\* the variance at (x, y) as the fraction num/den: s2/area - mean*mean with
\* mean = s/area, and area taken from the corners before they are clipped
LocalVariance(sum, sumsq, w, h, r, x, y) ==
    LET x0 == x - r
        y0 == y - r
        x1 == x + r
        y1 == y + r
        area == (x1 - x0 + 1) * (y1 - y0 + 1)
        s == rectSum(sum, w, h, x0, y0, x1, y1)
        s2 == rectSum(sumsq, w, h, x0, y0, x1, y1)
        num == s2 * area - s * s
    IN [num |-> IF num < 0 THEN 0 ELSE num, den |-> area * area]

\* idx0 for a pixel: floor((1 - varNorm) * (levels - 1)), varNorm the
\* variance between minVar and maxVar; every variance has the same den
LevelIndex(v, minVar, maxVar, levels) ==
    IF maxVar.num > minVar.num
    THEN ((maxVar.num - v.num) * (levels - 1)) \div (maxVar.num - minVar.num)
    ELSE levels - 1

\* grey images with at most two pixels off the background
Greys == {0, 51, 102, 255}
GreyImage(w, h, S, bg, fg) ==
    [rect |-> Rect(0, 0, w, h),
     pix |-> [k \in 1..(w * h) |-> IF k \in S THEN <<fg, fg, fg, 255>>
                                   ELSE <<bg, bg, bg, 255>>]]
GreyImages ==
    UNION {{GreyImage(w, h, S, bg, fg) :
                S \in {{}} \cup {{a, b} : a, b \in 1..(w * h)},
                bg \in Greys, fg \in {0, 255}} :
           w \in 1..MaxSide, h \in 1..MaxSide}

VarianceInit ==
    /\ vin \in [src : GreyImages, radius : 0..MaxRadius, levels : {1, 6}]
    /\ vst = [pc |-> "start"]

\* "if levels <= 1 || sigmaMin == sigmaMax": a uniform blur, no variances
VUniform ==
    /\ vst.pc = "start" /\ vin.levels <= 1
    /\ vst' = [pc |-> "uniform"]
    /\ UNCHANGED <<vin, notVariance>>

VLuminance ==
    /\ vst.pc = "start" /\ vin.levels > 1
    /\ vst' = [pc |-> "lum", lum |-> LumImage(vin.src)]
    /\ UNCHANGED <<vin, notVariance>>

VIntegral ==
    /\ vst.pc = "lum"
    /\ LET w == Dx(vin.src.rect)
           h == Dy(vin.src.rect)
       IN vst' = [pc |-> "integral", lum |-> vst.lum,
                  sum |-> Integral(vst.lum, w, h),
                  sumsq |-> Integral([i \in DOMAIN vst.lum |-> vst.lum[i] * vst.lum[i]], w, h)]
    /\ UNCHANGED <<vin, notVariance>>

VVariances ==
    /\ vst.pc = "integral"
    /\ LET w == Dx(vin.src.rect)
           h == Dy(vin.src.rect)
       IN vst' = [pc |-> "variances", lum |-> vst.lum,
                  variance |-> [i \in 0..(w * h - 1) |->
                      LocalVariance(vst.sum, vst.sumsq, w, h,
                                    VarRadius(vin.radius), i % w, i \div w)]]
    /\ UNCHANGED <<vin, notVariance>>

VLevels ==
    /\ vst.pc = "variances"
    /\ LET nums == {vst.variance[i].num : i \in DOMAIN vst.variance}
           den == vst.variance[0].den
           minVar == [num |-> SetMin(nums), den |-> den]
           maxVar == [num |-> SetMax(nums), den |-> den]
       IN vst' = [pc |-> "levels", lum |-> vst.lum, variance |-> vst.variance,
                  idx0 |-> [i \in DOMAIN vst.variance |->
                      LevelIndex(vst.variance[i], minVar, maxVar, vin.levels)]]
    /\ UNCHANGED <<vin, notVariance>>

VarianceNext == VUniform \/ VLuminance \/ VIntegral \/ VVariances \/ VLevels

InitVariance ==
    VarianceInit /\ SessionIdle /\ FloodIdle /\ CompIdle /\ WorkersIdle /\ OnceIdle
                 /\ EngineIdle /\ JpegIdle /\ CdfsIdle /\ NormalizeIdle
SpecVariance == InitVariance /\ [][VarianceNext]_vars

----------------------------------------------------------------------------
(* RunCLI's way to the dispatcher: the raw arguments are normalized        *)
(* against the command's CommandSpec, and the normalized arguments are     *)
(* what ApplyCommandStdlib is called with.                                 *)

\* the Args of Commands: name, type, required
ArgSpec(name, type, required) == [name |-> name, type |-> type, required |-> required]
Commands ==
    [resize |-> <<ArgSpec("width", "int", TRUE), ArgSpec("height", "int", TRUE)>>,
     medianFilter |-> <<ArgSpec("radius", "int", TRUE)>>,
     level |-> <<ArgSpec("blackPoint", "float", TRUE), ArgSpec("gamma", "float", TRUE),
                 ArgSpec("whitePoint", "float", TRUE)>>,
     adaptiveResize |-> <<ArgSpec("width", "int", FALSE), ArgSpec("height", "int", FALSE),
                          ArgSpec("a", "float", FALSE)>>,
     crop |-> <<ArgSpec("width", "int", TRUE), ArgSpec("height", "int", TRUE),
                ArgSpec("x", "int", TRUE), ArgSpec("y", "int", TRUE)>>,
     flip |-> <<>>,
     flop |-> <<>>,
     histogram |-> <<ArgSpec("bins", "int", FALSE), ArgSpec("pixelWindow", "int", FALSE)>>,
     trim |-> <<ArgSpec("fuzz", "float_or_percent", TRUE)>>,
     composite |-> <<ArgSpec("srcImagePath", "path", TRUE), ArgSpec("operator", "string", TRUE),
                     ArgSpec("x", "int", TRUE), ArgSpec("y", "int", TRUE)>>,
     identify |-> <<>>,
     strip |-> <<>>]

\* GenerateValidationRulesFromStdSpec: the ParamType of an argument type
\* (Min and Max of a rule are never set)
ParamType(at) ==
    CASE at = "int" -> "int"
      [] at = "float" -> "float"
      [] at = "bool" -> "bool"
      [] at \in {"percent", "float_or_percent"} -> "percent"
      [] at = "enum" -> "enum"
      [] OTHER -> "string"

\* strconv.FormatInt(v, 10) and strconv.FormatFloat(f, 'f', -1, 64) of a
\* whole number
FormatInt(v) == CHOOSE s \in DOMAIN IntVal : IntVal[s] = v

\* parsePercentValue: [err, n]
parsePercentValue(s) ==
    IF HasPercentSuffix(s)
    THEN IF ~ParseFloatOK(PercentBody[s]) THEN [err |-> TRUE, n |-> ""]
         ELSE [err |-> FALSE, n |-> FormatInt(ParseFloat(PercentBody[s]))]
    ELSE IF ~ParseFloatOK(s) THEN [err |-> TRUE, n |-> ""]
         ELSE [err |-> FALSE, n |-> s]

\* one turn of the loop over paramOrder: [err, out] for the argument a
NormalizeArg(a, raw) ==
    IF raw = "" THEN [err |-> a.required, out |-> ""]
    ELSE CASE ParamType(a.type) = "int" ->
                IF ~AtoiOK(raw) THEN [err |-> TRUE, out |-> ""]
                ELSE [err |-> FALSE, out |-> FormatInt(Atoi(raw))]
           [] ParamType(a.type) = "float" ->
                IF ~ParseFloatOK(raw) THEN [err |-> TRUE, out |-> ""]
                ELSE [err |-> FALSE, out |-> FormatInt(ParseFloat(raw))]
           [] ParamType(a.type) = "percent" ->
                [err |-> parsePercentValue(raw).err, out |-> parsePercentValue(raw).n]
           [] OTHER -> [err |-> FALSE, out |-> raw]

\* NormalizeArgsFromStd(store, cmdName, args): [err, out]; out has one entry
\* for every argument of the CommandSpec
NormalizeArgsFromStd(cmdName, args) ==
    IF cmdName \notin DOMAIN Commands THEN [err |-> TRUE, out |-> <<>>]
    ELSE LET paramOrder == Commands[cmdName]
             one(i) == NormalizeArg(paramOrder[i],
                                    IF i <= Len(args) THEN args[i] ELSE "")
         IN IF \E i \in 1..Len(paramOrder) : one(i).err THEN [err |-> TRUE, out |-> <<>>]
            ELSE [err |-> FALSE, out |-> [i \in 1..Len(paramOrder) |-> one(i).out]]

\* red with a last pixel ten levels darker: further than 5 and nearer than
\* 5% of 255 from the first pixel
Red3 == <<245, 0, 0, 255>>
Faded(w, h) == [rect |-> Rect(0, 0, w, h),
                pix |-> [k \in 1..(w * h) |-> IF k = w * h THEN Red3 ELSE Red]]
NormImages == {Banded(MaxW, MaxH), Faded(MaxW, MaxH), Faded(MaxW, 1)}

\* what is typed at the prompts
NormCalls ==
    {<<"trim", a>> : a \in {<<"0">>, <<"5">>, <<"5%">>, <<"50%">>, <<"x">>, <<"x%">>, <<"">>}}
    \cup {<<"resize", a>> : a \in {<<"2", "1">>, <<"1", "2">>, <<"x", "1">>, <<"1", "">>}}
    \cup {<<"crop", a>> : a \in {<<"1", "1", "0", "0">>, <<"2", "1", "1", "0">>}}
    \cup {<<"medianFilter", a>> : a \in {<<"1">>, <<"0">>, <<"x">>}}
    \cup {<<"level", <<"0", "1", "50">>>>, <<"flip", <<>>>>, <<"flop", <<>>>>,
          <<"identify", <<>>>>, <<"strip", <<>>>>, <<"bogus", <<"1">>>>,
          <<"composite", <<"a.png", "over", "1", "0">>>>}
    \cup {<<"adaptiveResize", a>> : a \in {<<"", "", "">>, <<"2", "1", "">>, <<"2", "", "">>}}
    \cup {<<"histogram", a>> : a \in {<<"", "">>, <<"2", "">>}}

\* newImg of a dispatch: the buffer that came back, if one did
Dispatched(img, res) ==
    [err |-> res.err, panic |-> res.panic,
     out |-> IF res.err \/ res.panic \/ res.out.buf = "nil" THEN NilImage
             ELSE AsImage(Deref(res.heap, res.out))]

NormalizeInit ==
    /\ \E img \in NormImages, c \in NormCalls :
          nin = [img |-> AsImage(img), cmd |-> c[1], rawArgs |-> c[2]]
    /\ nst = [pc |-> "prompted"]

\* normArgs, err := NormalizeArgsFromStd(...); err != nil: the command is
\* given up
NAbort ==
    /\ nst.pc = "prompted"
    /\ NormalizeArgsFromStd(nin.cmd, nin.rawArgs).err
    /\ nst' = [pc |-> "aborted"]
    /\ UNCHANGED <<nin, notNormalize>>

NNormalize ==
    /\ nst.pc = "prompted"
    /\ ~NormalizeArgsFromStd(nin.cmd, nin.rawArgs).err
    /\ nst' = [pc |-> "normalized",
               normArgs |-> NormalizeArgsFromStd(nin.cmd, nin.rawArgs).out]
    /\ UNCHANGED <<nin, notNormalize>>

\* newImg, err := stdimg.ApplyCommandStdlib(cur, commandName, normArgs)
NApply ==
    /\ nst.pc = "normalized"
    /\ \E res \in {ApplyCommandStdlib(nin.img, nin.cmd, nst.normArgs)} :
          nst' = [pc |-> "applied", normArgs |-> nst.normArgs,
                  got |-> Dispatched(nin.img, res)]
    /\ UNCHANGED <<nin, notNormalize>>

NormalizeNext == NAbort \/ NNormalize \/ NApply

InitNormalize ==
    NormalizeInit /\ SessionIdle /\ FloodIdle /\ CompIdle /\ WorkersIdle /\ OnceIdle
                  /\ EngineIdle /\ JpegIdle /\ CdfsIdle /\ VarianceIdle
SpecNormalize == InitNormalize /\ [][NormalizeNext]_vars

----------------------------------------------------------------------------
(* Properties of the session and of the dispatcher *)

called == last.cmd # ""
returned == called /\ ~last.err /\ ~last.panic

\* C1: whatever commands are chained on the current image, each applied to
\* the buffer the previous one returned, no command panics or indexes the
\* pixel store out of bounds
C1_NoCommandPanics == ~panicked

\* C2: a call of ApplyCommandStdlib leaves the image of its caller as it
\* was, pixels and bounds, whether it returns a buffer, nothing or an error
C2_CallerImageUntouched == called => last.argAfter = last.arg

\* a composite that succeeded and returned pixels other than the caller's
C2_CompositeReturnedOther ==
    /\ returned
    /\ last.cmd = "composite"
    /\ ~last.out.nil
    /\ last.out.pix # last.arg.pix

\* the commands of the switch the model has, the number of arguments each
\* takes before its optional ones, and the places of its required numbers
KnownCommands ==
    {"resize", "crop", "flip", "flop", "trim", "composite", "floodfillPaint",
     "identify", "strip"}
MinArgs ==
    [c \in KnownCommands |->
        CASE c = "resize" -> 2
          [] c = "crop" -> 4
          [] c = "trim" -> 1
          [] c = "composite" -> 4
          [] c = "floodfillPaint" -> 5
          [] OTHER -> 0]
IntArgs ==
    [c \in KnownCommands |->
        CASE c = "resize" -> {1, 2}
          [] c = "crop" -> {1, 2, 3, 4}
          [] c = "composite" -> {3, 4}
          [] c = "floodfillPaint" -> {4, 5}
          [] OTHER -> {}]
FloatOrPercentArgs ==
    [c \in KnownCommands |->
        CASE c = "trim" -> {1}
          [] c = "floodfillPaint" -> {2}
          [] OTHER -> {}]

\* the tokens that are numbers: the decimals, and for a float_or_percent
\* argument a decimal followed by a percent sign
IsInt(s) == s \in {"-1", "0", "1", "2", "3", "5", "50"}
IsFloatOrPercent(s) == IsInt(s) \/ s \in {"5%", "50%"}

BadCall(c, args) ==
    \/ c \notin KnownCommands
    \/ /\ c \in KnownCommands
       /\ \/ Len(args) < MinArgs[c]
          \/ \E i \in IntArgs[c] : i <= Len(args) /\ ~IsInt(args[i])
          \/ \E i \in FloatOrPercentArgs[c] :
                i <= Len(args) /\ ~IsFloatOrPercent(args[i])

\* C3: an unknown command name, an argument list shorter than the command
\* requires, or a required number that does not parse, gives an error and
\* no buffer
C3_BadCallIsAnError ==
    (called /\ BadCall(last.cmd, last.args)) =>
        (last.err /\ last.out.nil /\ ~last.panic)

\* resize with one argument, or with a width that is not a number, failed
C3_ResizeRejected ==
    /\ called
    /\ last.cmd = "resize"
    /\ (Len(last.args) = 1 \/ (Len(last.args) = 2 /\ ~IsInt(last.args[1])))
    /\ last.err

\* the region of the crop: ([x, x+width) x [y, y+height)) cut to the bounds
CropRegion(img, width, height, x, y) ==
    {p \in RectPoints(img.rect) :
        /\ x <= p[1] /\ p[1] < x + width
        /\ y <= p[2] /\ p[2] < y + height}
RegionW(R) == Cardinality({p[1] : p \in R})
RegionH(R) == Cardinality({p[2] : p \in R})
RegionMinX(R) == CHOOSE v \in {p[1] : p \in R} : \A p \in R : v <= p[1]
RegionMinY(R) == CHOOSE v \in {p[2] : p \in R} : \A p \in R : v <= p[2]

IsRestriction(out, img, R) ==
    /\ Dx(out.rect) = RegionW(R)
    /\ Dy(out.rect) = RegionH(R)
    /\ Len(out.pix) = Cardinality(R)
    /\ \A p \in R :
          LET i == p[1] - RegionMinX(R)
              j == p[2] - RegionMinY(R)
          IN out.pix[j * RegionW(R) + i + 1] = PixAt(img, PixOffset(img, p[1], p[2]))

\* C4: crop returns the source restricted to the region: the region's size,
\* and at offset (i, j) the source pixel at the region's corner plus (i, j)
C4_CropIsRestriction ==
    (returned /\ last.cmd = "crop") =>
        IsRestriction(last.out, last.arg,
                      CropRegion(last.arg, Atoi(last.args[1]), Atoi(last.args[2]),
                                 Atoi(last.args[3]), Atoi(last.args[4])))

----------------------------------------------------------------------------
(* Properties of FloodfillPaint *)

FFPoints == RectPoints(ffin.src.rect)
SrcAt(p) == ffin.src.pix[idxOf(ffin.src, p[1], p[2]) + 1]
OutAt(p) == ffout.pix[idxOf(ffin.src, p[1], p[2]) + 1]

\* the pixels the fill colour was composited onto
Composited == {p \in FFPoints : idxOf(ffin.src, p[1], p[2]) \in mask}

\* the pixels within fuzz of the seed pixel, and within fuzz of the border
MatchesSeed == {p \in FFPoints : labDistanceSq(SrcAt(p), ffin.start) <= ffin.fuzzSq}
NearBorder == {p \in FFPoints : labDistanceSq(SrcAt(p), ffin.border) <= ffin.fuzzSq}

Adjacent8(p, q) ==
    /\ p # q
    /\ p[1] - q[1] \in {-1, 0, 1}
    /\ p[2] - q[2] \in {-1, 0, 1}

\* the pixels of Allowed that 8-connected steps within Allowed reach from S
RECURSIVE Reach(_, _)
Reach(S, Allowed) ==
    LET T == S \cup {q \in Allowed : \E p \in S : Adjacent8(p, q)}
    IN IF T = S THEN S ELSE Reach(T, Allowed)

SeedComponent(Allowed) ==
    IF <<ffin.x, ffin.y>> \in Allowed THEN Reach({<<ffin.x, ffin.y>>}, Allowed) ELSE {}

\* the output is the input with the fill colour composited onto Region
FilledExactly(Region) ==
    /\ Composited = Region
    /\ \A p \in FFPoints :
          OutAt(p) = IF p \in Region THEN FFBlend(ffin.fill, SrcAt(p)) ELSE SrcAt(p)

\* C5: without a border colour and without invert, the fill colour is
\* composited onto exactly the 8-connected component of seed-matching
\* pixels that holds the seed, and every other pixel is as in the input
C5_FillsSeedComponent ==
    (ffpc = "done" /\ ~ffin.useBorder /\ ~ffin.invert) =>
        FilledExactly(SeedComponent(MatchesSeed))

\* a fill that stopped short of a matching pixel it could not reach
C5_MatchingPixelLeftOut ==
    /\ ffpc = "done" /\ ~ffin.useBorder /\ ~ffin.invert
    /\ Composited # {}
    /\ MatchesSeed \ Composited # {}

\* C6: with a border colour and without invert, no pixel within fuzz of the
\* border colour is modified, and no pixel that 8-connected steps through
\* non-border pixels do not reach from the seed
C6_BorderIsAWall ==
    (ffpc = "done" /\ ffin.useBorder /\ ~ffin.invert) =>
        \A p \in FFPoints :
            (p \in Composited \/ OutAt(p) # SrcAt(p)) =>
                /\ p \notin NearBorder
                /\ p \in SeedComponent(FFPoints \ NearBorder)

\* a border fill that painted something and was kept out of a region
C6_RegionBehindTheWall ==
    /\ ffpc = "done" /\ ffin.useBorder /\ ~ffin.invert
    /\ Composited # {}
    /\ NearBorder # {}
    /\ (FFPoints \ NearBorder) \ Composited # {}

\* C7: without a border colour and with invert, the fill colour is
\* composited onto exactly the pixels of the image that do not match the
\* seed pixel, connected to the seed or not, and the matching ones are as
\* in the input
C7_InvertIsGlobal ==
    (ffpc = "done" /\ ~ffin.useBorder /\ ffin.invert) =>
        FilledExactly(FFPoints \ MatchesSeed)

\* an inverted fill that spared a matching pixel not connected to the seed
C7_SparedFarMatch ==
    /\ ffpc = "done" /\ ~ffin.useBorder /\ ffin.invert
    /\ Composited # {}
    /\ MatchesSeed \ SeedComponent(MatchesSeed) # {}
    /\ \A p \in MatchesSeed : OutAt(p) = SrcAt(p)

----------------------------------------------------------------------------
(* Properties of Composite *)

\* the source rectangle placed at (xoff, yoff)
Footprint ==
    {p \in RectPoints(cin.dst.rect) :
        /\ cin.xoff <= p[1] /\ p[1] < cin.xoff + Dx(cin.src.rect)
        /\ cin.yoff <= p[2] /\ p[2] < cin.yoff + Dy(cin.src.rect)}

DstAt(p) == PixAt(cin.dst, PixOffset(cin.dst, p[1], p[2]))
CoutAt(p) == PixAt(cout, PixOffset(cout, p[1], p[2]))

\* C8: Composite leaves every destination pixel outside the footprint of
\* the source as it was, whatever the operator and the offset
C8_OutsideFootprintUntouched ==
    cpc # "call" /\ cpc # "idle" =>
        /\ cout.rect = cin.dst.rect
        /\ Len(cout.pix) = Len(cin.dst.pix)
        /\ \A p \in RectPoints(cin.dst.rect) \ Footprint : CoutAt(p) = DstAt(p)

\* a source hanging over the left edge changed a pixel and spared others
C8_PartlyCovered ==
    /\ cpc = "done"
    /\ cin.xoff < cin.dst.rect.minX
    /\ \E p \in Footprint : CoutAt(p) # DstAt(p)
    /\ RectPoints(cin.dst.rect) \ Footprint # {}

----------------------------------------------------------------------------
(* Properties of the row-parallel operations *)

\* the operation is one of the three that share out rows, on its parallel path
RowParallel ==
    wcfg.op \in {"adaptiveBlur", "sepia", "floodfill"} /\ ~Sequential(wcfg)

RowsOf(g) == {r \in 0..(wcfg.h - 1) : goroutines[g].lo <= r /\ r < goroutines[g].hi}

\* C9: when a row-parallel operation returns, every row of the output has
\* been written by exactly one worker: the workers' ranges are disjoint
\* and cover the rows, and every worker has finished
C9_RowsWrittenOnce ==
    (wpc = "returned" /\ RowParallel) =>
        /\ \A g \in 1..Len(goroutines) : goroutines[g].st = "finished"
        /\ \A r \in 0..(wcfg.h - 1) :
              /\ Cardinality(writers[<<1, r>>]) = 1
              /\ writers[<<1, r>>] \subseteq 1..Len(goroutines)
              /\ Cardinality({g \in 1..Len(goroutines) : r \in RowsOf(g)}) = 1

\* a row-parallel operation returned after two workers wrote rows
C9_TwoWorkersReturned ==
    /\ wpc = "returned"
    /\ RowParallel
    /\ \E g1, g2 \in 1..Len(goroutines) :
          g1 # g2 /\ RowsOf(g1) # {} /\ RowsOf(g2) # {}

\* the goroutines started in a pass, and the rows or work items of the pass
StartedIn(pass) == Cardinality({g \in 1..Len(goroutines) : goroutines[g].pass = pass})
ItemsOf(pass) == IF pass = 1 THEN wcfg.h ELSE wcfg.w

\* C10: a parallel operation starts at most min(CPUs, rows or work items)
\* workers
C10_WorkersCapped ==
    wpc # "idle" =>
        \A pass \in {1, 2} : StartedIn(pass) <= minInt(wcfg.ncpu, ItemsOf(pass))

----------------------------------------------------------------------------
(* Properties of the lookup tables *)

\* the calls that ran the initialisation function
Initialisers == {p \in Callers : sepiaCalls[p].path = "init"}
\* the calls that are past initSepiaLUTs()
PastInit == {p \in Callers : sepiaCalls[p].path \in {"fast", "init", "waited"}
                             /\ sepiaCalls[p].pc \in {"read", "returned"}}

\* C11: however many SepiaTone calls run concurrently as the first use, the
\* tables are written by exactly one initialisation (no entry is written
\* twice, one call runs the function), and no call reads an entry before
\* that initialisation has completed
C11_LutsInitialisedOnce ==
    /\ \A j \in DOMAIN lutWrites : lutWrites[j] <= 1
    /\ Cardinality(Initialisers) <= 1
    /\ \A p \in Callers : ~sepiaCalls[p].early
    /\ \A p \in PastInit :
          /\ Cardinality(Initialisers) = 1
          /\ \A j \in DOMAIN lutWrites : lutWrites[j] = 1

\* three kinds of first use at once: one call initialised, one waited for
\* the mutex, and both have returned after reading the tables
C11_ConcurrentFirstUse ==
    \E p, q \in Callers :
        /\ sepiaCalls[p].path = "init" /\ sepiaCalls[p].pc = "returned"
        /\ sepiaCalls[q].path = "waited" /\ sepiaCalls[q].pc = "returned"

----------------------------------------------------------------------------
(* Properties of the engine's functions *)

ECalls(op) == {i \in 1..Len(ecalls) : ecalls[i].op = op}

\* the pixel of the buffer img at column x, row y of its rectangle
At(img, x, y) == img.pix[y * Dx(img.rect) + x + 1]

\* where the EXIF orientation c takes the output pixel (x, y) from, in an
\* input of w columns and h rows
ExifFrom(c, w, h, x, y) ==
    CASE c = 1 -> <<x, y>>
      [] c = 2 -> <<w - 1 - x, y>>
      [] c = 3 -> <<w - 1 - x, h - 1 - y>>
      [] c = 4 -> <<x, h - 1 - y>>
      [] c = 5 -> <<y, x>>
      [] c = 6 -> <<y, h - 1 - x>>
      [] c = 7 -> <<w - 1 - y, h - 1 - x>>
      [] c = 8 -> <<w - 1 - y, x>>

\* C14: AutoOrient applies exactly the transform of the orientation code:
\* the output is h x w for the codes 5..8 and w x h for 1..4, and every
\* output pixel is the input pixel at the place the transform prescribes
C14_AppliesExifTransform ==
    \A i \in ECalls("AutoOrient") :
        LET c == ecalls[i].params[1]
            in == ecalls[i].arg
            out == ecalls[i].out
            w == Dx(in.rect)
            h == Dy(in.rect)
        IN c \in 1..8 =>
             /\ ~ecalls[i].panic /\ ~out.nil
             /\ Dx(out.rect) = (IF c >= 5 THEN h ELSE w)
             /\ Dy(out.rect) = (IF c >= 5 THEN w ELSE h)
             /\ Len(out.pix) = w * h
             /\ \A x \in 0..(Dx(out.rect) - 1), y \in 0..(Dy(out.rect) - 1) :
                   At(out, x, y) = At(in, ExifFrom(c, w, h, x, y)[1],
                                          ExifFrom(c, w, h, x, y)[2])

\* a transverse of an image that is not square and whose pixels all differ
C14_TransverseOfOblong ==
    \E i \in ECalls("AutoOrient") :
        /\ ecalls[i].params[1] = 7
        /\ ecalls[i].arg = AsImage(Ramp(MaxW, MaxH))
        /\ ~ecalls[i].out.nil

InverseCode == <<1, 2, 3, 4, 5, 8, 7, 6>>

\* C15: AutoOrient with a code c in 1..8 followed by AutoOrient with the
\* inverse code gives back the original dimensions and pixel data
C15_OrientRoundTrip ==
    \A i \in ECalls("AutoOrient") :
        (/\ i + 1 \in ECalls("AutoOrient")
         /\ ecalls[i].params[1] \in 1..8
         /\ ecalls[i + 1].params[1] = InverseCode[ecalls[i].params[1]])
        => /\ ~ecalls[i + 1].out.nil
           /\ Dx(ecalls[i + 1].out.rect) = Dx(ecalls[i].arg.rect)
           /\ Dy(ecalls[i + 1].out.rect) = Dy(ecalls[i].arg.rect)
           /\ ecalls[i + 1].out.pix = ecalls[i].arg.pix

\* an oblong image rotated clockwise and then counter-clockwise
C15_RotatedThereAndBack ==
    /\ Len(ecalls) >= 2
    /\ ecalls[1].op = "AutoOrient" /\ ecalls[1].params[1] = 6
    /\ ecalls[2].op = "AutoOrient" /\ ecalls[2].params[1] = 8
    /\ ecalls[1].arg = AsImage(Ramp(MaxW, MaxH))
    /\ ~ecalls[2].out.nil

----------------------------------------------------------------------------
(* Properties of MedianFilter, ComputeHistogram and the no-ops *)

\* img has at least 3 x 3 pixels, all of the value v but pixel k
ImpulseAt(img, k, v) ==
    /\ Dx(img.rect) >= 3 /\ Dy(img.rect) >= 3
    /\ k \in 1..Len(img.pix)
    /\ img.pix[k] # v
    /\ \A i \in 1..Len(img.pix) : i # k => img.pix[i] = v

\* C16: on an image of at least 3 x 3 pixels that all have the value V but
\* one, MedianFilter with radius 1 returns an image of the same rectangle
\* whose every pixel is V, the pixel where the impulse lay included,
\* wherever it lay
C16_MedianRemovesImpulse ==
    \A i \in ECalls("MedianFilter") :
        LET c == ecalls[i]
        IN \A k \in 1..Len(c.arg.pix) : \A v \in {c.arg.pix[j] : j \in 1..Len(c.arg.pix)} :
              c.params = <<1>> /\ ImpulseAt(c.arg, k, v)
                 => /\ ~c.panic
                    /\ c.out.rect = c.arg.rect
                    /\ c.out.pix = [j \in 1..Len(c.arg.pix) |-> v]

\* a bright impulse in the last column of the first row was filtered away
C16_ImpulseInCorner ==
    \E i \in ECalls("MedianFilter") :
        LET c == ecalls[i]
        IN /\ c.params = <<1>>
           /\ ImpulseAt(c.arg, Dx(c.arg.rect), <<128, 128, 128, 255>>)
           /\ c.arg.pix[Dx(c.arg.rect)][1] = 255
           /\ c.out.pix[Dx(c.arg.rect)] = <<128, 128, 128, 255>>

\* the bin of ComputeHistogram a value falls in
BinOf(v, bins) == IF (v * bins) \div 256 >= bins THEN bins - 1 ELSE (v * bins) \div 256

\* s[lo] + ... + s[hi]
RECURSIVE SumRange(_, _, _)
SumRange(s, lo, hi) ==
    IF lo > hi THEN 0
    ELSE IF lo = hi THEN s[lo]
    ELSE SumRange(s, lo, (lo + hi) \div 2) + SumRange(s, (lo + hi) \div 2 + 1, hi)

\* C17: for every image and every bins >= 1 the three histograms of
\* ComputeHistogram have bins entries each, entry b of a channel is the
\* number of pixels whose value of that channel falls in bin b (so every
\* pixel is counted in exactly one bin), and the entries of each add up to
\* width x height
C17_HistogramCountsEveryPixel ==
    \A i \in ECalls("ComputeHistogram") :
        LET c == ecalls[i]
            bins == c.params[1]
            n == Dx(c.arg.rect) * Dy(c.arg.rect)
            ok(hist, ch) ==
                /\ Len(hist) = bins
                /\ \A b \in 1..bins :
                      hist[b] = Cardinality({k \in 1..n : BinOf(c.arg.pix[k][ch], bins) = b - 1})
                /\ SumRange(hist, 1, Len(hist)) = n
        IN bins >= 1 => /\ ~c.panic
                        /\ ok(c.hist.r, 1) /\ ok(c.hist.g, 2) /\ ok(c.hist.b, 3)

\* three bins were asked for on an image whose green values fall in two
C17_TwoBinsFilled ==
    \E i \in ECalls("ComputeHistogram") :
        LET c == ecalls[i]
        IN /\ c.params = <<3>>
           /\ ~c.panic
           /\ c.hist.g[1] > 0 /\ c.hist.g[2] = 0 /\ c.hist.g[3] > 0

\* the calls that are no-ops by their parameters
NoOpCalls ==
    {i \in 1..Len(ecalls) :
        \/ ecalls[i].op = "Level" /\ ecalls[i].params[3] <= ecalls[i].params[1]
        \/ ecalls[i].op = "AddNoise" /\ ecalls[i].params[1] <= 0
        \/ ecalls[i].op = "MedianFilter" /\ ecalls[i].params[1] <= 0}

\* C18: Level with whitePoint <= blackPoint, AddNoise with amount <= 0 and
\* MedianFilter with radius <= 0 return a buffer with the rectangle and the
\* pixels of the input, and it is not the buffer that was passed
C18_NoOpsReturnClone ==
    \A i \in NoOpCalls :
        LET c == ecalls[i]
        IN /\ ~c.panic
           /\ ~c.out.nil
           /\ c.out.rect = c.arg.rect
           /\ c.out.pix = c.arg.pix
           /\ ~c.same

\* MedianFilter with radius 0 was called on an image that has pixels
C18_MedianNoOpCalled ==
    \E i \in NoOpCalls :
        /\ ecalls[i].op = "MedianFilter"
        /\ ecalls[i].params = <<0>>
        /\ ecalls[i].arg.pix # <<>>
        /\ ecalls[i].out.pix = ecalls[i].arg.pix

----------------------------------------------------------------------------
(* Properties of the buffers the engine's functions take and return *)

\* the calls of the engine's functions themselves that came back
EngineOps == {"AutoOrient", "MedianFilter", "Level", "AddNoise", "ComputeHistogram",
              "SepiaTone", "Composite", "FloodfillPaint", "Vignette"}
DirectCalls == {i \in 1..Len(ecalls) : ecalls[i].op \in EngineOps /\ ~ecalls[i].panic}

\* C12 as stated: every operation of the engine leaves the buffer passed to
\* it as it was, and the buffer it returns is never the one passed to it
C12_InputsUntouchedOutputFresh ==
    \A i \in DirectCalls :
        /\ ecalls[i].argAfter = ecalls[i].arg.pix
        /\ ~ecalls[i].same

\* the calls documented to hand back the buffer they were given: Composite
\* (dst), SepiaTone with percentage <= 0, AutoOrient with an orientation
\* that is 1 or unknown
ReturnsItsInput(c) ==
    \/ c.op = "Composite"
    \/ c.op = "SepiaTone" /\ c.params[1] <= 0
    \/ c.op = "AutoOrient" /\ (c.params[1] <= 1 \/ c.params[1] > 8)

\* C12, amended: every operation of the engine but Composite leaves the
\* buffer passed to it as it was, and the buffer that comes back is the one
\* passed in exactly for Composite, for SepiaTone with percentage <= 0 and
\* for AutoOrient with an orientation outside 2..8; every other call returns
\* a buffer of its own
C12_AliasesOnlyWhereDocumented ==
    \A i \in DirectCalls :
        /\ ecalls[i].op # "Composite" => ecalls[i].argAfter = ecalls[i].arg.pix
        /\ ecalls[i].same <=> ReturnsItsInput(ecalls[i])

\* Composite wrote into the buffer it was given and returned it
C12_CompositeWroteDst ==
    \E i \in DirectCalls :
        /\ ecalls[i].op = "Composite"
        /\ ecalls[i].same
        /\ ecalls[i].argAfter # ecalls[i].arg.pix
        /\ ecalls[i].out.pix = ecalls[i].argAfter

----------------------------------------------------------------------------
(* Properties of the size of what the dispatcher returns *)

\* the calls of the dispatcher that returned a buffer
CommandCalls ==
    {i \in 1..Len(ecalls) :
        /\ ecalls[i].op \notin EngineOps
        /\ ~ecalls[i].panic /\ ~ecalls[i].err /\ ~ecalls[i].out.nil}

SameSize(c) ==
    /\ Dx(c.out.rect) = Dx(c.arg.rect)
    /\ Dy(c.out.rect) = Dy(c.arg.rect)

\* C13 as stated: a command other than resize, rotate and crop that returns
\* a buffer returns one as wide and as high as its input
C13_OnlyResizeRotateCropResize ==
    \A i \in CommandCalls :
        ecalls[i].op \notin {"resize", "rotate", "crop"} => SameSize(ecalls[i])

\* C13, amended: a command other than resize, rotate, crop, trim,
\* adaptiveResize and histogram that returns a buffer returns one as wide
\* and as high as its input
C13_SizeKeptButBySixCommands ==
    \A i \in CommandCalls :
        ecalls[i].op \notin {"resize", "rotate", "crop", "trim", "adaptiveResize", "histogram"}
            => SameSize(ecalls[i])

\* medianFilter returned a buffer of the size of its input, and that has
\* pixels
C13_MedianFilterKeptSize ==
    \E i \in CommandCalls :
        /\ ecalls[i].op = "medianFilter"
        /\ ecalls[i].params = <<"1">>
        /\ ecalls[i].arg.pix # <<>>
        /\ SameSize(ecalls[i])

----------------------------------------------------------------------------
(* Properties of resize and of Composite *)

\* C19: when the resize command accepts its arguments W and H without an
\* error, it returns a buffer exactly W pixels wide and H pixels high, on
\* every source buffer; the buffer has no pixels when W or H is 0
C19_ResizeReturnsRequestedSize ==
    last.cmd = "resize" /\ ~last.err
        => /\ ~last.panic
           /\ ~last.out.nil
           /\ Dx(last.out.rect) = Atoi(last.args[1])
           /\ Dy(last.out.rect) = Atoi(last.args[2])
           /\ (Atoi(last.args[1]) = 0 \/ Atoi(last.args[2]) = 0 => last.out.pix = <<>>)

\* the pixel of the source that lies over the point p of the destination
CsrcAt(p) == PixAt(cin.src, PixOffset(cin.src, p[1] - cin.xoff, p[2] - cin.yoff))

\* the source's pixel over p is semi-transparent, the destination's opaque
SemiOverOpaque(p) == CsrcAt(p)[4] > 0 /\ CsrcAt(p)[4] < 255 /\ DstAt(p)[4] = 255

\* C20 as stated: with the operator over, every opaque pixel of the
\* destination that lies under a semi-transparent pixel of the source
\* (0 < alpha < 255) is changed, whatever the two colours
C20_SemiTransparentAlwaysChanges ==
    cpc = "done" /\ stringUpper(cin.op) = "OVER" =>
        \A p \in Footprint : SemiOverOpaque(p) => CoutAt(p) # DstAt(p)

\* some colour channel of the source is lower than the destination's, or
\* higher than it by more than 255/alpha
Visible(s, d) ==
    \E ch \in 1..3 : s[ch] < d[ch] \/ (s[ch] - d[ch]) * s[4] > 255

\* C20, amended: with the operator over, an opaque pixel of the destination
\* that lies under a semi-transparent pixel of the source is changed
\* whenever some colour channel of the source is lower than the
\* destination's or higher than it by more than 255/alpha
C20_VisibleSourceChanges ==
    cpc = "done" /\ stringUpper(cin.op) = "OVER" =>
        \A p \in Footprint :
            SemiOverOpaque(p) /\ Visible(CsrcAt(p), DstAt(p)) => CoutAt(p) # DstAt(p)

\* blue at alpha 128 over opaque red left a pixel between the two
C20_BlueOverRed ==
    /\ cpc = "done" /\ stringUpper(cin.op) = "OVER"
    /\ \E p \in Footprint :
          /\ CsrcAt(p) = <<0, 0, 255, 128>>
          /\ DstAt(p) = Red
          /\ CoutAt(p) = <<127, 0, 128, 255>>

\* the calls that ask for no toning at all: SepiaTone with percentage 0, and
\* the sepia command with the argument 0 or 0%
SepiaZeroCalls ==
    {i \in 1..Len(ecalls) :
        \/ ecalls[i].op = "SepiaTone" /\ ecalls[i].params[1] = 0
        \/ ecalls[i].op = "sepia" /\ Len(ecalls[i].params) >= 1
                                  /\ ecalls[i].params[1] \in {"0", "0%"}}

\* C21: SepiaTone with percentage 0, and the sepia command with argument 0,
\* return an image that is pixel for pixel its input, whatever the curve
C21_SepiaZeroIsIdentity ==
    \A i \in SepiaZeroCalls :
        /\ ~ecalls[i].panic /\ ~ecalls[i].err /\ ~ecalls[i].out.nil
        /\ ecalls[i].out.rect = ecalls[i].arg.rect
        /\ ecalls[i].out.pix = ecalls[i].arg.pix

\* sepia 0 with the curve at 1, on an image with a white pixel, which the
\* arithmetic alone would not give back as it was
C21_ZeroWithFullCurve ==
    \E i \in SepiaZeroCalls :
        /\ ecalls[i].op = "sepia"
        /\ ecalls[i].params = <<"0", "", "", "", "", "1">>
        /\ \E k \in 1..Len(ecalls[i].arg.pix) : ecalls[i].arg.pix[k] = White
        /\ ecalls[i].out.pix = ecalls[i].arg.pix

\* the calls that tone in full with the tonal parameters at their defaults
SepiaFullCalls ==
    {i \in 1..Len(ecalls) :
        /\ \/ ecalls[i].op = "SepiaTone" /\ ecalls[i].params = <<100, SepiaDefaultCurve>>
           \/ ecalls[i].op = "sepia" /\ ecalls[i].params \in {<<>>, <<"1">>}
        /\ ~ecalls[i].panic /\ ~ecalls[i].out.nil}

\* pixel k of call i came out within squared Lab distance 4 of #704214, its
\* alpha as it was
SepiaOnTarget(i, k) ==
    /\ LabDistSqCeil[<<RGB(ecalls[i].out.pix[k]), SepiaBrown>>] <= 4
    /\ ecalls[i].out.pix[k][4] = ecalls[i].arg.pix[k][4]

MidLightness(c) == LabLightness[RGB(c)] >= 48 /\ LabLightness[RGB(c)] <= 52

VignetteZeroCalls ==
    {i \in 1..Len(ecalls) :
        /\ \/ ecalls[i].op = "Vignette" /\ ecalls[i].params[4] = 0
           \/ ecalls[i].op = "vignette" /\ Len(ecalls[i].params) >= 5
                                        /\ ecalls[i].params[5] \in {"0", "0%"}
        /\ ~ecalls[i].panic /\ ~ecalls[i].err}

\* C23: Vignette darkens each colour by the factor 1 - mask * strength, so
\* with strength 0 every output pixel is the input pixel
C23_VignetteZeroStrengthIsIdentity ==
    \A i \in VignetteZeroCalls :
        /\ ~ecalls[i].out.nil
        /\ ecalls[i].out.rect = ecalls[i].arg.rect
        /\ ecalls[i].out.pix = ecalls[i].arg.pix

\* the value bytes of an IFD entry that carries the orientation tag, in p
OrientationBytes(p) ==
    UNION {(ent + 8)..(ent + 11) :
              ent \in {e \in 0..(Len(p) - 12) :
                          <<ByteAt(p, e), ByteAt(p, e + 1)>> \in {<<18, 1>>, <<1, 18>>}}}

\* q is p but for the value of an orientation entry
SameButOrientation(p, q) ==
    /\ Len(p) = Len(q)
    /\ \A i \in 0..(Len(p) - 1) : ByteAt(p, i) # ByteAt(q, i) => i \in OrientationBytes(p)

\* the file written has the APPn segments of the file opened: the markers,
\* in their order, and the payloads but for the orientation value
SegmentsKept ==
    LET orig == parseJPEGAppSegments(jfile).segs
        kept == parseJPEGAppSegments(jout).segs
    IN /\ Len(kept) = Len(orig)
       /\ \A i \in 1..Len(orig) :
             /\ kept[i].Marker = orig[i].Marker
             /\ IF jloaded.autoOriented /\ orig[i].Marker = 225
                THEN SameButOrientation(orig[i].Payload, kept[i].Payload)
                ELSE kept[i].Payload = orig[i].Payload

\* C24: a JPEG opened with LoadImage and written with SaveImage to a .jpg
\* path, with the segments LoadImage returned, has the APPn segments of the
\* file opened, the markers in their order and the payloads byte for byte
\* but for the EXIF orientation, which reads 1 when the image was turned
\* upright on load
C24_MetadataSurvivesRoundTrip ==
    jpc = "saved" =>
        /\ SegmentsKept
        /\ jloaded.autoOriented => extractJPEGOrientation(jout) = {1}

\* the k-th smallest of the values vals[p]: the value with fewer than k of
\* them below it and at least k of them up to it
KthSmallest(vals, k) ==
    CHOOSE v \in 0..255 :
        /\ Cardinality({p \in DOMAIN vals : vals[p] < v}) < k
        /\ Cardinality({p \in DOMAIN vals : vals[p] <= v}) >= k

\* the pixels within radius of (x, y) that lie in the image
ClippedWindow(img, radius, x, y) ==
    {p \in (0..(Dx(img.rect) - 1)) \X (0..(Dy(img.rect) - 1)) :
        /\ p[1] >= x - radius /\ p[1] <= x + radius
        /\ p[2] >= y - radius /\ p[2] <= y + radius}

\* C25: for every image, radius >= 1, pixel and channel, the value the
\* sliding histogram of MedianFilter gives is the ((n+1)/2)-th smallest of
\* the n values of that channel in the window cut to the image
C25_SlidingMedianIsWindowMedian ==
    \A i \in ECalls("MedianFilter") :
        (ecalls[i].params[1] >= 1 /\ ~ecalls[i].panic) =>
            \A x \in 0..(Dx(ecalls[i].arg.rect) - 1), y \in 0..(Dy(ecalls[i].arg.rect) - 1),
               ch \in 1..4 :
                LET win == ClippedWindow(ecalls[i].arg, ecalls[i].params[1], x, y)
                    vals == [p \in win |-> At(ecalls[i].arg, p[1], p[2])[ch]]
                IN At(ecalls[i].out, x, y)[ch]
                      = KthSmallest(vals, (Cardinality(win) + 1) \div 2)

\* radius 1 on the image of six different colours: the window slides along
\* a row, a column leaving it and one entering, and the median moves
C25_MedianMovedAlongTheRow ==
    \E i \in ECalls("MedianFilter") :
        /\ ecalls[i].params[1] = 1 /\ ~ecalls[i].panic
        /\ ecalls[i].arg.pix = Tones.pix
        /\ At(ecalls[i].out, 0, 0)[2] = 0
        /\ At(ecalls[i].out, 1, 0)[2] = 107
        /\ At(ecalls[i].out, 2, 0)[2] = 119

\* the goroutines of the given pass of SeparableGaussianBlur
BlurWorkers(pass) ==
    {g \in 1..Len(goroutines) : wcfg.op = "blur" /\ goroutines[g].pass = pass}

\* C26: in SeparableGaussianBlur no goroutine of the vertical pass reads the
\* intermediate buffer (none is even started) until every goroutine of the
\* horizontal pass has written its row and finished, and the function
\* returns only after every goroutine of the vertical pass has written its
\* column and finished
C26_BlurPassesInOrder ==
    wcfg.op = "blur" =>
        /\ BlurWorkers(2) # {} =>
              /\ \A y \in 0..(wcfg.h - 1) : writers[<<1, y>>] # {}
              /\ Cardinality(BlurWorkers(1)) = wcfg.h
              /\ \A g \in BlurWorkers(1) : goroutines[g].st = "finished"
        /\ wpc = "returned" =>
              /\ \A x \in 0..(wcfg.w - 1) : writers[<<2, x>>] # {}
              /\ Cardinality(BlurWorkers(2)) = wcfg.w
              /\ \A g \in BlurWorkers(2) : goroutines[g].st = "finished"

\* a blur of several rows and two columns has returned
C26_BlurReturned ==
    /\ wcfg.op = "blur" /\ wcfg.h = MaxRows /\ wcfg.w = 2
    /\ wpc = "returned"
    /\ Cardinality(BlurWorkers(1)) = MaxRows /\ Cardinality(BlurWorkers(2)) = 2

----------------------------------------------------------------------------
\* every value has been taken off jobs once, by one worker, and its entry
\* of cdfs written once, with a CDF that has an entry
CdfsComplete ==
    \A ch \in 0..(MaxValues - 1) :
        /\ Len(ptaken[ch]) = 1
        /\ Len(pcdfs[ch]) = 1
        /\ Len(pcdfs[ch][1]) >= 1

CdfsWorkersDone ==
    /\ Len(pwk) = pcfg.workers
    /\ \A w \in 1..Len(pwk) : pwk[w].st = "done"

CdfsSafe ==
    /\ \A ch \in 0..(MaxValues - 1) : Len(ptaken[ch]) <= 1 /\ Len(pcdfs[ch]) <= 1
    /\ pmain.pc = "returned" => CdfsComplete /\ CdfsWorkersDone

\* C27: for every number of workers from 1 up, buildPoissonCDFs returns, and
\* when it has returned each channel value was taken off the job queue by
\* exactly one worker, its entry of cdfs was written exactly once and is not
\* empty, and every worker has ended; no value is ever taken or written twice.
C27_CdfsBuiltOnceThenReturned == [](CdfsSafe) /\ <>(pmain.pc = "returned")

\* returned, with the values shared between two workers
C27_ReturnedWithSharedWork ==
    /\ pmain.pc = "returned"
    /\ pcfg.workers >= 2
    /\ \E a, b \in 0..(MaxValues - 1) : ptaken[a] # ptaken[b]

----------------------------------------------------------------------------
\* a turn of the loop over stackSeeds: the popped seed is dropped and nothing
\* else changes, or a pixel that was not marked is marked
FFTurnProgress ==
    (ffpc = "discover" /\ stackSeeds # <<>>) =>
        \/ /\ FFDiscarded(ffin, mask, stackSeeds[Len(stackSeeds)])
           /\ mask' = mask
           /\ stackSeeds' = SubSeq(stackSeeds, 1, Len(stackSeeds) - 1)
        \/ /\ ~FFDiscarded(ffin, mask, stackSeeds[Len(stackSeeds)])
           /\ mask \subseteq mask'
           /\ mask' # mask

\* C28: every turn of FloodfillPaint's region discovery either drops the
\* popped seed or marks at least one pixel that was not marked, and from
\* every state of the discovery the seed stack becomes empty in the end.
C28_DiscoveryTerminates ==
    /\ [][FFTurnProgress]_vars
    /\ (ffpc = "discover" /\ stackSeeds # <<>>) ~> (stackSeeds = <<>>)

\* the discovery ended with the whole image marked, from a seed that was
\* clamped into the image
C28_WholeImageDiscovered ==
    /\ ffpc = "discover"
    /\ stackSeeds = <<>>
    /\ Cardinality(mask) = MaxW * MaxH
    /\ MaxW * MaxH > 1

----------------------------------------------------------------------------
\* the pixels of the window of radius r about (x, y) that lie in the image
VarWindow(w, h, r, x, y) ==
    {i \in 0..(w * h - 1) :
        /\ i % w >= x - r /\ i % w <= x + r
        /\ i \div w >= y - r /\ i \div w <= y + r}

RECURSIVE SumOver(_, _)
SumOver(f, S) ==
    IF S = {} THEN 0
    ELSE LET i == CHOOSE j \in S : TRUE IN f[i] + SumOver(f, S \ {i})

\* the variance of lum over the set S of pixels, as the fraction num/den
VarianceOver(lum, S) ==
    LET n == Cardinality(S)
        s == SumOver(lum, S)
        s2 == SumOver([i \in DOMAIN lum |-> lum[i] * lum[i]], S)
    IN [num |-> s2 * n - s * s, den |-> n * n]

SameFraction(a, b) == a.num * b.den = b.num * a.den

VarianceFieldBuilt == vst.pc \in {"variances", "levels"}

ConstantLuminance == \A i, j \in DOMAIN vst.lum : vst.lum[i] = vst.lum[j]

\* C29: the variance AdaptiveBlurPerPixel holds for a pixel is the variance
\* of the luminance over the window of radius r clipped to the image, and it
\* is 0 at every pixel of an image of constant luminance.
C29_VarianceIsOverClippedWindow ==
    VarianceFieldBuilt =>
        LET w == Dx(vin.src.rect)
            h == Dy(vin.src.rect)
        IN /\ \A i \in DOMAIN vst.variance :
                SameFraction(vst.variance[i],
                    VarianceOver(vst.lum,
                        VarWindow(w, h, VarRadius(vin.radius), i % w, i \div w)))
           /\ ConstantLuminance => \A i \in DOMAIN vst.variance : vst.variance[i].num = 0

----------------------------------------------------------------------------
\* the dispatch of the raw arguments, had they been handed on as typed
RawDispatch == Dispatched(nin.img, ApplyCommandStdlib(nin.img, nin.cmd, nin.rawArgs))

\* C30: when NormalizeArgsFromStd accepts the raw arguments of a command and
\* the dispatcher accepts them too, dispatching the normalized arguments
\* gives what dispatching the raw arguments gives; so "5%" for trim is still
\* five percent after the normalization.
C30_NormalizedDispatchesAsRaw ==
    (nst.pc = "applied" /\ ~RawDispatch.err /\ ~RawDispatch.panic) =>
        nst.got = RawDispatch

====
